---- MODULE Spec2Model ----
(***************************************************************************)
(* Physical restore of a sharded cluster (pbm/restore, PhysRestore):       *)
(* every node runs Snapshot and the nodes rendezvous through status        *)
(* objects on a shared storage (toState / waitFiles / hb / checkHB).       *)
(*                                                                         *)
(* Granularity.  One action is one storage operation or one local step of  *)
(* Snapshot; one poll of one awaited object by waitFiles (its .error, .hb  *)
(* and status reads) is one action, and the passes of waitFiles over its   *)
(* pending set are kept (todo).  An error return runs the deferred         *)
(* handlers of toState and Snapshot in the same action.                    *)
(*                                                                         *)
(* Time.  Heartbeat objects hold their age instead of a timestamp, so that *)
(* `t + hbFrameSec*2 < now` is `hbFrameSec*2 < age`.  The clock advances   *)
(* in steps of TickSec, just over the staleness bound hbFrameSec*2: a      *)
(* heartbeat task that runs beats within every step, so a beat is either   *)
(* fresh or stale.  The rendezvous (the saves of toState, the 5 s ticker   *)
(* of waitFiles) is fast against the clock: the clock advances only when   *)
(* no node is about to save a status object and no waiter has a poll left  *)
(* that would change its state.  The local steps of Snapshot (copy, the    *)
(* supervised boots) take any time.  Every agent picks the command up      *)
(* before the first clock step unless it is down.                          *)
(***************************************************************************)
EXTENDS Integers, Sequences, FiniteSets, TLC

\* ------------------------------------------------------------ topology
\* A sharded cluster: the config server replica set (one member) and one
\* data shard of three members (rsConf.Members), of which a3 may be an
\* arbiter.
Hosts == {"c1", "a1", "a2", "a3"}
Replsets == {"cfg", "sh"}
ConfigRS == "cfg"

Members(r) == IF r = ConfigRS THEN {"c1"} ELSE {"a1", "a2", "a3"}
rsOf(n) == IF n = "c1" THEN ConfigRS ELSE "sh"

\* nodeInfo as read by the agent before the restore starts
IsPrimary(n) == n \in {"c1", "a1"}
IsConfigSrv(n) == rsOf(n) = ConfigRS
IsSharded == Cardinality(Replsets) > 1
IsLeader(n) == ~IsSharded \/ IsConfigSrv(n)
IsClusterLeader(n) == IsPrimary(n) /\ IsLeader(n)

\* ------------------------------------------------------------ bounds
MaxFail == 1      \* operations that return an error in one run
MaxCrash == 1     \* nodes that stop silently in one run

\* ------------------------------------------------------------ constants
hbFrameSec == 120
\* the step of the clock, and the cap of an age
TickSec == hbFrameSec * 2 + 1
MaxAge == TickSec
NoHb == 0 - 1

\* ------------------------------------------------------------ statuses
StatusStarting == "starting"
StatusRunning == "running"
StatusDown == "down"
StatusDone == "done"
StatusPartlyDone == "partlyDone"
StatusError == "error"
Statuses == {StatusStarting, StatusRunning, StatusDown, StatusDone,
             StatusPartlyDone, StatusError}
syncHbSuffix == "hb"

\* restoreStared, restoreDone
restoreStared == "restoreStared"
restoreDone == "restoreDone"

\* ------------------------------------------------------------ storage paths
NodeObj(n) == <<"node", n>>
RSObj(r) == <<"rs", r>>
ClusterObj == <<"cluster", "">>
Objs == {NodeObj(n) : n \in Hosts} \cup {RSObj(r) : r \in Replsets} \cup {ClusterObj}
Files == Objs \X Statuses

syncPathNode(n) == NodeObj(n)
syncPathRS(n) == RSObj(rsOf(n))
syncPathCluster == ClusterObj
ClusterMembers == Replsets
GetShards == Replsets \ {ConfigRS}
\* the shards wait over the own replica set alone
syncPathShards_OwnRS(n) == {RSObj(rsOf(n))}
syncPathShards(n) == {RSObj(r) : r \in ClusterMembers}
syncPathDataShards(n) == {RSObj(r) : r \in GetShards}

\* filepath.Base of an object path: node.<host>, rs, cluster
Base(f) == IF f[1] = "node" THEN "node." \o f[2] ELSE f[1]
\* the object path under <PhysRestoresDir>/<name>/
Path(f) ==
    IF f[1] = "node" THEN "rs." \o rsOf(f[2]) \o "/node." \o f[2]
    ELSE IF f[1] = "rs" THEN "rs." \o f[2] \o "/rs"
    ELSE "cluster"

\* ------------------------------------------------------------ errors, bodies
\* An error: the messages wrapped around it, whether its cause is a nodeErr,
\* and the text of the cause.
NoErr == [wrap |-> <<>>, isNodeErr |-> FALSE, text |-> <<>>]
NewErr(msg) == [wrap |-> <<>>, isNodeErr |-> FALSE, text |-> <<msg>>]
nodeErr(node, msg) == [wrap |-> <<>>, isNodeErr |-> TRUE, text |-> <<node>> \o msg]
Wrap(e, msg) == [e EXCEPT !.wrap = <<msg>> \o @]
ErrorText(e) == e.wrap \o e.text
\* errors.As(e, &nerr)
AsNodeErr(e) == [e EXCEPT !.wrap = <<>>]

NoFile == <<>>
\* "<unix-ts>" and "<unix-ts>:<error-text>"
okStatus == <<"ts">>
errStatus(e) == <<"ts">> \o ErrorText(e)

\* ------------------------------------------------------------ backups
\* versions: <<major, minor>> of the tool, <<major, minor, patch>> of the
\* database; the database of every node runs MongoVersion
GetMongoVersion == <<6, 0, 4>>
majmin(v) == <<v[1], v[2]>>
VersionLess(a, b) == a[1] < b[1] \/ (a[1] = b[1] /\ a[2] < b[2])
\* pbm.BreakingChangesMap[PhysicalBackup]
BreakingChanges == {<<2, 0>>}
\* version.CompatibleWith: the backup is not older than a breaking change
CompatibleWith(v, breaking) == \A b \in breaking : ~VersionLess(v, b)

\* a backup of the whole cluster that can be restored
GoodBackup == [Replsets |-> Replsets, Status |-> StatusDone,
               PBMVersion |-> <<2, 1>>, MongoVersion |-> <<6, 0, 9>>]
\* the target backups of the runs: the good one, one without a section for
\* the shard, an unfinished one, one of an old tool, one of another database
Backups == {GoodBackup,
            [GoodBackup EXCEPT !.Replsets = {ConfigRS}],
            [GoodBackup EXCEPT !.Status = StatusError],
            [GoodBackup EXCEPT !.PBMVersion = <<1, 8>>],
            [GoodBackup EXCEPT !.MongoVersion = <<5, 0, 9>>]}

ErrNoDataForShard == NewErr("no data for shard")
\* errors.Is(e, ErrNoDataForShard)
IsNoDataForShard(e) == e.text = ErrNoDataForShard.text

\* ------------------------------------------------------------ state
VARIABLES
    arbiterOnly,\* the members of the replica set configs that are arbiters
    bcp,        \* r.bcp, the metadata of the target backup
    lock,       \* the restore lock of each replica set: its holder, "" if free
    lockRel,    \* the nodes that have released their lock
    second,     \* how a second restore command ended on the node, "" if none came
    cancelled,  \* the nodes whose agent got a cancellation
    chain,      \* the backups of the chain to restore, the base first
    rfiles,     \* r.files, the frames of the plan
    disk,       \* the data directory that copyFiles fills
    ppc,        \* position of the planner and of copy
    paths,      \* r.syncPathPeers, r.syncPathShards, r.syncPathDataShards of each node
    pc,         \* position of each node in Snapshot
    tstatus,    \* the status argument of the running toState
    w,          \* the locals of the running waitFiles
    cstat,      \* the status the last waitFiles returned
    ret,        \* what toState(S) returned on the node, "" before it returns
    err,        \* the error Snapshot returned
    progress,   \* nodeStatus bits of Snapshot
    mongod,     \* the database process of the node: "up", "down"
    primaryNow, \* whether the database reports itself primary (GetInfo)
    dbpath,     \* content of the data directory
    stg,        \* status objects on the storage: file -> body
    age,        \* heartbeat objects: seconds since the last beat, NoHb if absent
    startAge,   \* seconds since r.startTS, NoHb before init
    hbOn,       \* the heartbeat task of the node is running
    log,        \* history: the status files each node saved, in order
    meta,       \* the summary <restore-name>.json
    fails,      \* injected errors so far
    crashes,    \* crashed nodes so far
    buf,        \* logBuff.buf, the bytes buffered
    cnt,        \* logBuff.cnt, the number of the next log object
    mx,         \* logBuff.mx: the caller that holds it, "" if free
    objects,    \* the log objects on the storage: n -> content of <path>.<n>.log
    lpc,        \* position of each caller of the log buffer
    larg,       \* the argument p of the running Write of each caller
    accepted,   \* history: the bytes the Write calls accepted, in order
    saveFails,  \* failed writes of log objects so far
    nom,        \* the nomination of the replica set in the backup metadata
    batches,    \* nominateRS: its argument nodes, the batches by priority
    npc,        \* nominateRS: its position, the number of the next batch
    apc,        \* Agent.Backup: the position of the agent of each candidate
    bcpLock,    \* the backup lock of the replica set: its holder, "" if free
    ran,        \* history: the nodes whose agent called bcp.Run, in order
    published   \* history: the batches set, each with the ack found at that time

\* the variables of the plan, and those of the restore
planVars == <<chain, rfiles, disk, ppc>>
logVars == <<buf, cnt, mx, objects, lpc, larg, accepted, saveFails>>
\* the variables the restore of the cluster and the planner leave alone
nomVars == <<nom, batches, npc, apc, bcpLock, ran, published>>
auxVars == <<logVars, nomVars>>
coreVars == <<arbiterOnly, paths, bcp, cancelled, second, lock, lockRel, pc, tstatus, w, cstat, ret,
              err, progress, mongod, primaryNow, dbpath, stg, age, startAge, hbOn, log,
              meta, fails, crashes>>
restoreVars == <<auxVars, coreVars>>

vars == <<auxVars, arbiterOnly, paths, planVars, bcp, cancelled, second, lock, lockRel, pc, tstatus, w, cstat, ret, err, progress, mongod, primaryNow, dbpath,
          stg, age, startAge, hbOn, log, meta, fails, crashes>>

\* the hosts that run an agent and take part in the restore
Nodes == Hosts \ arbiterOnly
\* a primary that waits for itself alone
syncPathPeers_Self(n) == {NodeObj(n)}
\* r.syncPathPeers: the members that are not arbiters
syncPathPeers(n) == {NodeObj(m) : m \in {x \in Members(rsOf(n)) : x \notin arbiterOnly}}

ToStateStatuses == {StatusStarting, StatusRunning, StatusDone}
ToStatePcs == {"ts_node", "ts_peers", "ts_saveRS", "ts_shards", "ts_saveCluster", "ts_cluster"}
WaitPcs == {"ts_peers", "ts_shards", "ts_cluster", "fl_down"}
FlushPcs == {"fl_down", "fl_shutdown", "fl_remove"}
LocalPcs == {"copyFiles", "prepareData", "recoverStandalone", "resetRS"}
RunningPcs == {"prepareBackup"} \cup ToStatePcs \cup FlushPcs \cup LocalPcs
                 \cup {"dumpMeta", "dumpMetaSave"}

\* another operation of the agents, as the holder of a lock
OtherOp == "other"

NoWait == [status |-> "", cluster |-> FALSE, objs |-> {}, todo |-> {},
           curErr |-> NoErr, haveDone |-> FALSE, retStatus |-> "", ref |-> ""]
\* waitFiles(status, objs, cluster): the locals before the first tick
NewWait(status, objs, cluster) ==
    [status |-> status, cluster |-> cluster, objs |-> objs, todo |-> objs,
     curErr |-> NoErr, haveDone |-> FALSE, retStatus |-> status, ref |-> ""]

\* A map of the program is a reference: [ref, keys], ref naming the field of
\* r whose map it is, "" for a map no field holds.  A delete on the map of
\* a field changes the field.
NoPaths == [peers |-> {}, shards |-> {}, dataShards |-> {}]
\* the map in the field of r of node n
FieldMap(n, field) == [ref |-> field, keys |-> paths[n][field]]
\* map[string]struct{}{...}: a new map
NewMap(keys) == [ref |-> "", keys |-> keys]
\* a call that hands the map of the field itself to the waiter
copyMap_SameMap(m) == m
\* copyMap(m): a new map with the keys of m
copyMap(m) == NewMap(m.keys)

\* ------------------------------------------------------------ artifact plan
\* File names are paths, a sequence of components; a leading "/" is a first
\* component "".  A file of a backup section is [Name, Off, Len, Size]; a
\* backup holds the section of the replica set of the node (Files, Journal),
\* the link to its source backup ("" for none) and, as `data`, the files of
\* the data directory when it was taken.  Every backup of a chain holds a
\* section of the replica set.
bcpDir == "__dir__"
BcpNames == <<"b1", "b2", "b3", "b4", "b5", "b6", "b7", "b8">>

Range(s) == {s[i] : i \in 1..Len(s)}
Max(a, b) == IF a < b THEN b ELSE a
Min(a, b) == IF a < b THEN a ELSE b

\* path.Dir: the path without its last component; <<>> is "."
Dir(p) == SubSeq(p, 1, Len(p) - 1)
\* strings.TrimPrefix(fname, prefix), the prefix ending with "/"
TrimPrefix(fname, prefix) ==
    IF Len(prefix) < Len(fname) /\ SubSeq(fname, 1, Len(prefix)) = prefix
    THEN SubSeq(fname, Len(prefix) + 1, Len(fname))
    ELSE fname
\* filepath.Join(r.dbpath, fname), relative to r.dbpath: empty components go
Join(fname) == SelectSeq(fname, LAMBDA c : c # "")

\* findDBpath: the name starts with "/", and the prefix before /journal/
findDBpath(fname) ==
    IF fname[1] # "" THEN [is |-> FALSE, prefix |-> <<>>]
    ELSE [is |-> TRUE,
          prefix |-> IF Len(fname) >= 3 /\ fname[Len(fname) - 1] = "journal"
                     THEN SubSeq(fname, 1, Len(fname) - 2) ELSE <<>>]

\* r.cn.GetBackupMeta(name)
GetBackupMeta(name) == CHOOSE b \in Range(chain) : b.Name = name
\* getRS(bcp, rs): the section of the replica set in the metadata b, or nil
nil == [nil |-> TRUE]
getRS(b) == IF "Files" \in DOMAIN b THEN b ELSE nil
\* the loop of setBcpFiles gets a section for every source backup it reaches
RECURSIVE SourcesHaveRS(_)
SourcesHaveRS(b) ==
    \/ b.SrcBackup = ""
    \/ /\ getRS(GetBackupMeta(b.SrcBackup)) # nil
       /\ SourcesHaveRS(GetBackupMeta(b.SrcBackup))
\* the section of a backup: append(rs.Files, rs.Journal...)
Section(b) == b.Files \o b.Journal
\* the keys of targetFiles
targetFiles(b) == {f.Name : f \in Range(Section(b))}

\* data.dbpath after the loop over the files of a frame: the first prefix
\* findDBpath gives that is not empty
RECURSIVE frameDBpath(_)
frameDBpath(data) ==
    IF data = <<>> THEN <<>>
    ELSE IF findDBpath(data[1].Name).prefix # <<>> THEN findDBpath(data[1].Name).prefix
    ELSE frameDBpath(Tail(data))

\* a frame that holds every file of the section with data
frame_NoTargetFilter(b, T) ==
    LET data == SelectSeq(Section(b), LAMBDA f : f.Off >= 0 /\ f.Len >= 0)
    IN  [BcpName |-> b.Name, Data |-> data, dbpath |-> frameDBpath(data)]

\* setBcpFiles: the frame of backup b, T being the target file names
frame(b, T) ==
    LET data == SelectSeq(Section(b), LAMBDA f : f.Name \in T /\ f.Off >= 0 /\ f.Len >= 0)
    IN  [BcpName |-> b.Name, Data |-> data, dbpath |-> frameDBpath(data)]

\* setBcpFiles: the frames from backup b back to the backup without source
RECURSIVE chainFrames(_, _)
chainFrames(b, T) ==
    <<frame(b, T)>> \o
    (IF b.SrcBackup = "" THEN <<>> ELSE chainFrames(GetBackupMeta(b.SrcBackup), T))

\* the names of the files in the frames
Emitted(frames) == UNION {{f.Name : f \in Range(frames[i].Data)} : i \in 1..Len(frames)}

\* directory records that count the data directory itself as a directory
RECURSIVE dirs_WithDot(_, _, _)
dirs_WithDot(ord, was, seen) ==
    IF ord = <<>> THEN <<>>
    ELSE IF ord[1] \notin was /\ Dir(ord[1]) \notin seen
    THEN <<[Name |-> ord[1], Off |-> 0 - 1, Len |-> 0 - 1, Size |-> 0 - 1]>>
         \o dirs_WithDot(Tail(ord), was, seen \cup {Dir(ord[1])})
    ELSE dirs_WithDot(Tail(ord), was, seen)

\* setBcpFiles: the directory records, the names of targetFiles being visited
\* in the order ord; was: the names emitted, seen: dirsm
RECURSIVE dirs(_, _, _)
dirs(ord, was, seen) ==
    IF ord = <<>> THEN <<>>
    ELSE IF ord[1] \notin was /\ Dir(ord[1]) # <<>> /\ Dir(ord[1]) \notin seen
    THEN <<[Name |-> ord[1], Off |-> 0 - 1, Len |-> 0 - 1, Size |-> 0 - 1]>>
         \o dirs(Tail(ord), was, seen \cup {Dir(ord[1])})
    ELSE dirs(Tail(ord), was, seen)

\* the orders in which a range over a map of the keys S may visit them
Orders(S) ==
    {s \in [1..Cardinality(S) -> S] : \A i, j \in 1..Cardinality(S) : s[i] = s[j] => i = j}

\* r.files for the target backup b, targetFiles visited in the order ord
plan(b, ord) ==
    LET frames == chainFrames(b, targetFiles(b))
        d == dirs(ord, Emitted(frames), {})
    IN  frames \o (IF Len(d) > 0 THEN <<[BcpName |-> bcpDir, Data |-> d, dbpath |-> <<>>]>>
                   ELSE <<>>)

\* File.WriteTo: what a backup stores for the file f of its section
WriteTo(b, f) ==
    LET c == b.data[f.Name] IN
    IF f.Len = 0 /\ f.Off = 0 THEN c
    ELSE SubSeq(c, f.Off + 1, Min(f.Off + f.Len, Len(c)))
\* the name of the object of file f of backup name (without the name of the
\* replica set and the suffix of the compression)
srcOf(name, f) == <<name, f.Name, IF f.Len # 0 THEN <<f.Off, f.Len>> ELSE <<>>>>
\* the objects a backup has stored
Stored(b) ==
    {<<srcOf(b.Name, f), WriteTo(b, f)>> :
        f \in {g \in Range(Section(b)) : g.Off >= 0 /\ g.Len >= 0}}
\* what the reader gives for an object that is not on the storage
NoObject == <<0 - 1>>
\* r.stg.SourceReader(src) and the decompression: the data of the object
SourceReader(src) ==
    LET found == {o \in UNION {Stored(b) : b \in Range(chain)} : o[1] = src}
    IN  IF found = {} THEN NoObject ELSE (CHOOSE o \in found : TRUE)[2]

\* the data directory: the content of its files and its directories, by path
\* under r.dbpath; err: copyFiles has returned an error
EmptyDisk == [files |-> [p \in {} |-> <<>>], dirs |-> {}, err |-> FALSE]
\* os.MkdirAll(dir)
MkdirAll(ds, dir) == ds \cup {SubSeq(dir, 1, k) : k \in 1..Len(dir)}
\* Seek(off) and the copy of data into the content old; a hole reads 0
WriteAt(old, off, data) ==
    IF data = <<>> THEN old
    ELSE [i \in 1..Max(Len(old), off + Len(data)) |->
            IF off < i /\ i <= off + Len(data) THEN data[i - off]
            ELSE IF i <= Len(old) THEN old[i] ELSE 0]
\* fw.Truncate(size)
Truncate(c, size) == [i \in 1..size |-> IF i <= Len(c) THEN c[i] ELSE 0]

\* copyFiles: the body of the loop over the files of the frame set, on the
\* data directory d
copyFile(d, set, f) ==
    LET fname == IF set.dbpath # <<>> THEN TrimPrefix(f.Name, set.dbpath) ELSE f.Name
        dst == Join(fname)
        ds == MkdirAll(d.dirs, Dir(dst))
        data == SourceReader(srcOf(set.BcpName, f))
        old == IF dst \in DOMAIN d.files THEN d.files[dst] ELSE <<>>
        written == WriteAt(old, f.Off, data)
        new == IF f.Size # 0 THEN Truncate(written, f.Size) ELSE written
    IN  IF d.err THEN d
        ELSE IF set.BcpName = bcpDir THEN [d EXCEPT !.dirs = ds]
        ELSE IF data = NoObject THEN [d EXCEPT !.dirs = ds, !.err = TRUE]
        ELSE [files |-> [p \in DOMAIN d.files \cup {dst} |->
                           IF p = dst THEN new ELSE d.files[p]],
              dirs |-> ds, err |-> FALSE]

\* copyFiles: the files of one frame, in order
RECURSIVE copyFrame(_, _, _)
copyFrame(d, set, data) ==
    IF data = <<>> THEN d
    ELSE copyFrame(copyFile(d, set, data[1]), set, Tail(data))

\* copyFiles: the frames from the last one to the first one
RECURSIVE copyFrames(_, _)
copyFrames(d, frames) ==
    IF frames = <<>> THEN d
    ELSE copyFrames(copyFrame(d, frames[Len(frames)], frames[Len(frames)].Data),
                    SubSeq(frames, 1, Len(frames) - 1))

\* ------------------------------------------------------------ chains
MaxDepth == 3     \* backups in a chain
MaxFileLen == 2   \* bytes in a file

Bytes == {1, 2}
Contents == UNION {[1..k -> Bytes] : k \in 0..MaxFileLen}

\* the records of a file with the content c: all of it, a range of it, none
\* of it (unchanged since the last backup)
whole(name, c) == [Name |-> name, Off |-> 0, Len |-> 0, Size |-> Len(c)]
unchanged(name, c) == [Name |-> name, Off |-> 0 - 1, Len |-> 0 - 1, Size |-> Len(c)]

\* the bytes of cur that prev does not hold
Changed(prev, cur) == {p \in 1..Len(cur) : p > Len(prev) \/ prev[p] # cur[p]}
\* the records an incremental backup may hold for a file that was prev at
\* the source backup and is cur: a changed file is stored whole or as a range
\* that covers every changed byte
Records(name, prev, cur) ==
    IF prev = cur THEN {unchanged(name, cur)}
    ELSE {whole(name, cur)} \cup
         {r \in [Name : {name}, Off : 0..MaxFileLen, Len : 1..MaxFileLen,
                 Size : {Len(cur)}] :
             /\ r.Off + r.Len <= Len(cur)
             /\ Changed(prev, cur) \subseteq (r.Off + 1)..(r.Off + r.Len)}

\* chains over one file, the history of its content being free
ByteFile == <<"collection-7.wt">>
ByteBackup(i, src, rec, c) ==
    [Name |-> BcpNames[i], SrcBackup |-> src, Files |-> <<rec>>, Journal |-> <<>>,
     data |-> [n \in {ByteFile} |-> c]]
ByteNext(ch) ==
    LET last == ch[Len(ch)] IN
    UNION {{Append(ch, ByteBackup(Len(ch) + 1, last.Name, rec, cur)) :
               rec \in Records(ByteFile, last.data[ByteFile], cur)} : cur \in Contents}
RECURSIVE ByteChainsOf(_)
ByteChainsOf(k) ==
    IF k = 1 THEN {<<ByteBackup(1, "", whole(ByteFile, c), c)>> : c \in Contents}
    ELSE UNION {ByteNext(ch) : ch \in ByteChainsOf(k - 1)}
ByteChains == UNION {ByteChainsOf(k) : k \in 1..MaxDepth}

\* chains of a base and at most one incremental backup over several files
\* of fixed content: a file in the root of the data directory, two files of
\* one directory, a journal file; the names are relative, or absolute under
\* the data directory of the node that was backed up (PBM-1058)
Layouts == {<<>>, <<"", "data">>}
DataNames(pre) == <<pre \o <<"x">>, pre \o <<"db1", "c">>, pre \o <<"db1", "g">>>>
JournalNames(pre) == <<pre \o <<"journal", "j">>>>
AllNames(pre) == Range(DataNames(pre)) \cup Range(JournalNames(pre))

BaseContent == <<1>>
NewContent == <<2>>
\* the section of a base backup: the files in `has`, whole
BaseBackup(pre, has) ==
    LET recs(names) == [i \in 1..Len(SelectSeq(names, LAMBDA n : n \in has)) |->
                          whole(SelectSeq(names, LAMBDA n : n \in has)[i], BaseContent)]
    IN  [Name |-> BcpNames[1], SrcBackup |-> "",
         Files |-> recs(DataNames(pre)), Journal |-> recs(JournalNames(pre)),
         data |-> [n \in has |-> BaseContent]]
\* the section of an incremental backup on the base: the files in `new`
\* whole, those in `same` unchanged (in the base or not: a file the cursor
\* lists before it is in a checkpoint)
IncBackup(pre, base, new, same) ==
    LET rec(n) == IF n \in new THEN whole(n, NewContent)
                  ELSE unchanged(n, IF n \in DOMAIN base.data THEN BaseContent ELSE <<>>)
        recs(names) == [i \in 1..Len(SelectSeq(names, LAMBDA n : n \in new \cup same)) |->
                          rec(SelectSeq(names, LAMBDA n : n \in new \cup same)[i])]
    IN  [Name |-> BcpNames[2], SrcBackup |-> base.Name,
         Files |-> recs(DataNames(pre)), Journal |-> recs(JournalNames(pre)),
         data |-> [n \in new \cup (same \cap DOMAIN base.data) |->
                     IF n \in new THEN NewContent ELSE BaseContent]]
\* the files an incremental backup holds whole, and those it lists unchanged
NewAndSame(pre) ==
    {p \in (SUBSET AllNames(pre)) \X (SUBSET AllNames(pre)) : p[1] \cap p[2] = {}}
NameChains ==
    UNION {UNION {{<<BaseBackup(pre, has)>>} \cup
                  {<<BaseBackup(pre, has),
                     IncBackup(pre, BaseBackup(pre, has), p[1], p[2])>> :
                      p \in NewAndSame(pre)} :
                  has \in SUBSET AllNames(pre)} : pre \in Layouts}

Chains == ByteChains \cup NameChains

\* the metadata of backup b without a section for the replica set of the node
WithoutRS(b) == [Name |-> b.Name, SrcBackup |-> b.SrcBackup]
\* the chains in which one backup has no section for the replica set
GapChains ==
    UNION {{[ch EXCEPT ![i] = WithoutRS(ch[i])] : i \in 1..Len(ch)} : ch \in Chains}

\* ------------------------------------------------------------ logBuff
\* The log buffer of one node during the offline phase.  Its callers are the
\* tasks of the agent that log; the limit of 1 MiB is scaled down.
Callers == {"k1", "k2"}
limit == 2         \* logBuff.limit, in bytes
MaxCnt == 3        \* log objects written at most
MaxAccepted == 4   \* bytes accepted at most
MaxSaveFail == 1   \* failed writes of log objects at most

\* the arguments of Write: no single write is longer than the limit
Payloads == UNION {[1..k -> Bytes] : k \in 1..limit}

\* &logBuff{buf: new(bytes.Buffer), ...}: cnt is zero, nothing is stored
InitLog ==
    /\ buf = <<>>
    /\ cnt = 0
    /\ mx = ""
    /\ objects = <<>>
    /\ lpc = [c \in Callers |-> "idle"]
    /\ larg = [c \in Callers |-> <<>>]
    /\ accepted = <<>>
    /\ saveFails = 0

\* a buffer without its mutex
Lock_NoMutex(c) == mx' = c
\* l.mx.Lock()
Lock(c) == mx = "" /\ mx' = c

\* the deferred l.mx.Unlock() and the return
Unlock(c) == mx' = "" /\ lpc' = [lpc EXCEPT ![c] = "idle"]

\* fmt.Sprintf("%s.%d.log", l.path, l.cnt): the object is known by its number
fname(k) == k

\* stg.Save(name, data, -1) reads data to its end and stores what it read
Save(st, name, data) ==
    [k \in DOMAIN st \cup {name} |-> IF k = name THEN data ELSE st[k]]

\* Write takes the mutex
WriteCall(c, p) ==
    /\ lpc[c] = "idle"
    /\ Len(accepted) + Len(p) <= MaxAccepted
    /\ Lock(c)
    /\ larg' = [larg EXCEPT ![c] = p]
    /\ lpc' = [lpc EXCEPT ![c] =
                  IF Len(buf) + Len(p) > limit THEN "w_flush" ELSE "w_append"]
    /\ UNCHANGED <<nomVars, planVars, coreVars, buf, cnt, objects, accepted, saveFails>>

\* Flush takes the mutex
FlushCall(c) ==
    /\ lpc[c] = "idle"
    /\ Lock(c)
    /\ lpc' = [lpc EXCEPT ![c] = "f_flush"]
    /\ UNCHANGED <<nomVars, planVars, coreVars, buf, cnt, objects, larg, accepted, saveFails>>

\* flush: l.write(fname, l.buf).  The storage reads the buffer, which takes
\* the bytes read out of it; a write that fails has read some of them.
flushWrite(c) ==
    /\ lpc[c] \in {"w_flush", "f_flush"}
    /\ cnt < MaxCnt
    /\ \/ /\ objects' = Save(objects, fname(cnt), buf)
          /\ buf' = <<>>
          /\ lpc' = [lpc EXCEPT ![c] = IF @ = "w_flush" THEN "w_reset" ELSE "f_reset"]
          /\ UNCHANGED <<mx, saveFails>>
       \/ /\ saveFails < MaxSaveFail
          /\ saveFails' = saveFails + 1
          /\ \E k \in 0..Len(buf) : buf' = SubSeq(buf, k + 1, Len(buf))
          /\ Unlock(c)
          /\ UNCHANGED objects
    /\ UNCHANGED <<nomVars, planVars, coreVars, cnt, larg, accepted>>

\* flush: l.buf.Reset(); l.cnt++
flushReset(c) ==
    /\ lpc[c] \in {"w_reset", "f_reset"}
    /\ buf' = <<>>
    /\ cnt' = cnt + 1
    /\ IF lpc[c] = "w_reset"
       THEN lpc' = [lpc EXCEPT ![c] = "w_append"] /\ UNCHANGED mx
       ELSE Unlock(c)
    /\ UNCHANGED <<nomVars, planVars, coreVars, objects, larg, accepted, saveFails>>

\* Write: return l.buf.Write(p)
WriteAppend(c) ==
    /\ lpc[c] = "w_append"
    /\ buf' = buf \o larg[c]
    /\ accepted' = accepted \o larg[c]
    /\ Unlock(c)
    /\ UNCHANGED <<nomVars, planVars, coreVars, cnt, objects, larg, saveFails>>

\* ------------------------------------------------------------ nomination
\* The nomination of the nodes of one replica set for one backup.  The
\* agent of the cluster leader runs nominateRS, the agent of every suitable
\* node of the replica set runs Backup from waitNomination on.
Candidates == {"a1", "a2"}
\* BcpNodesPriority(c).RS(rs): the nodes in batches of equal priority
BatchLists == {<< {"a1"}, {"a2"} >>, << {"a2"}, {"a1"} >>, << {"a1", "a2"} >>}
\* no nomination of the replica set in the metadata: pbm.ErrNotFound
NotFound == [found |-> FALSE, Nodes |-> {}, Ack |-> ""]

InitNom ==
    /\ nom = NotFound
    /\ batches = <<>>
    /\ npc = [at |-> "start", i |-> 1]
    /\ apc = [n \in Candidates |-> "waitNomination"]
    /\ bcpLock = ""
    /\ ran = <<>>
    /\ published = <<>>

\* nominateRS(bcp, rs, nodes): SetRSNomination adds the nomination
nominateRS(nodes) ==
    /\ npc.at = "start"
    /\ batches' = nodes
    /\ nom' = [found |-> TRUE, Nodes |-> {}, Ack |-> ""]
    /\ npc' = [at |-> "get", i |-> 1]
    /\ UNCHANGED <<apc, bcpLock, ran, published>>
    /\ UNCHANGED <<logVars, planVars, coreVars>>

\* nominateRS, in its loop: GetRSNominees; an ack ends the nomination
nominateGet ==
    /\ npc.at = "get"
    /\ npc' = IF npc.i > Len(batches) \/ nom.Ack # ""
              THEN [npc EXCEPT !.at = "returned"]
              ELSE [npc EXCEPT !.at = "set"]
    /\ UNCHANGED <<nom, batches, apc, bcpLock, ran, published>>
    /\ UNCHANGED <<logVars, planVars, coreVars>>

\* nominateRS, in its loop: SetRSNominees sets the nominees to the batch,
\* then the heartbeat and the sleep of renominationFrame
nominateSet ==
    /\ npc.at = "set"
    /\ nom' = [nom EXCEPT !.Nodes = batches[npc.i]]
    /\ published' = Append(published, [nodes |-> batches[npc.i], ack |-> nom.Ack])
    /\ npc' = [at |-> "get", i |-> npc.i + 1]
    /\ UNCHANGED <<batches, apc, bcpLock, ran>>
    /\ UNCHANGED <<logVars, planVars, coreVars>>

\* waitNomination(bcp, rs, node), a tick: false once there is an ack, true
\* if the node is among the nominees, another tick otherwise
waitNomination(n) ==
    /\ apc[n] = "waitNomination"
    /\ nom.found
    /\ nom.Ack # "" \/ n \in nom.Nodes
    /\ apc' = [apc EXCEPT ![n] = IF nom.Ack # "" THEN "skip" ELSE "acquireLock"]
    /\ UNCHANGED <<nom, batches, npc, bcpLock, ran, published>>
    /\ UNCHANGED <<logVars, planVars, coreVars>>

\* waitNomination: the timer of pbm.WaitActionStart fires
nominationTimeout(n) ==
    /\ apc[n] = "waitNomination"
    /\ npc.at = "returned"
    /\ apc' = [apc EXCEPT ![n] = "skip"]
    /\ UNCHANGED <<nom, batches, npc, bcpLock, ran, published>>
    /\ UNCHANGED <<logVars, planVars, coreVars>>

\* a.acquireLock(lock, ...): the lock of the replica set is got if no
\* operation holds it (one lock for a replica set: the unique index)
acquireLock(n) ==
    /\ apc[n] = "acquireLock"
    /\ IF bcpLock = ""
       THEN bcpLock' = n /\ apc' = [apc EXCEPT ![n] = "ack"]
       ELSE apc' = [apc EXCEPT ![n] = "skip"] /\ UNCHANGED bcpLock
    /\ UNCHANGED <<nom, batches, npc, ran, published>>
    /\ UNCHANGED <<logVars, planVars, coreVars>>

\* SetRSNomineeACK(bcp, rs, node), then bcp.Run starts
SetRSNomineeACK(n) ==
    /\ apc[n] = "ack"
    /\ nom' = [nom EXCEPT !.Ack = n]
    /\ ran' = Append(ran, n)
    /\ apc' = [apc EXCEPT ![n] = "run"]
    /\ UNCHANGED <<batches, npc, bcpLock, published>>
    /\ UNCHANGED <<logVars, planVars, coreVars>>

\* bcp.Run returns, with an error or without; lock.Release()
Release(n) ==
    /\ apc[n] = "run"
    /\ bcpLock' = ""
    /\ apc' = [apc EXCEPT ![n] = "finished"]
    /\ UNCHANGED <<nom, batches, npc, ran, published>>
    /\ UNCHANGED <<logVars, planVars, coreVars>>

\* ------------------------------------------------------------ initial states
InitRestore ==
    /\ InitLog
    /\ InitNom
    /\ arbiterOnly = {"a3"}
    /\ bcp \in Backups
    /\ lock \in {[r \in Replsets |-> ""],
                 [r \in Replsets |-> IF r = ConfigRS THEN "" ELSE OtherOp]}
    /\ lockRel = {}
    /\ second = [n \in Hosts |-> ""]
    /\ cancelled = {}
    /\ pc = [n \in Hosts |-> IF n = "a3" THEN "arbiter" ELSE "restorePhysical"]
    /\ tstatus = [n \in Hosts |-> ""]
    /\ w = [n \in Hosts |-> NoWait]
    /\ paths = [n \in Hosts |-> NoPaths]
    /\ cstat = [n \in Hosts |-> ""]
    /\ ret = [n \in Hosts |-> [s \in ToStateStatuses |-> ""]]
    /\ err = [n \in Hosts |-> NoErr]
    /\ progress = [n \in Hosts |-> {}]
    /\ mongod = [n \in Hosts |-> "up"]
    /\ primaryNow = [n \in Hosts |-> IsPrimary(n)]
    /\ dbpath = [n \in Hosts |-> "original"]
    /\ stg = [f \in Files |-> NoFile]
    /\ age = [f \in Objs |-> NoHb]
    /\ startAge = [n \in Hosts |-> NoHb]
    /\ hbOn = [n \in Hosts |-> FALSE]
    /\ log = [n \in Hosts |-> <<>>]
    /\ meta = [status |-> "", writers |-> <<>>]
    /\ fails = 0
    /\ crashes = 0

\* the restore of the cluster: the plan is not looked into
Init ==
    /\ InitRestore
    /\ chain = <<>>
    /\ rfiles = <<>>
    /\ disk = EmptyDisk
    /\ ppc = "idle"

\* ------------------------------------------------------------ heartbeats
\* a heartbeat that beats for the node object alone
hb_NodeOnly(n, a) ==
    [f \in Objs |-> IF f = syncPathNode(n) THEN 0 ELSE a[f]]

\* hb(): the node, replica set and cluster heartbeat objects get a fresh beat
hb(n, a) ==
    [f \in Objs |-> IF f \in {syncPathNode(n), syncPathRS(n), syncPathCluster}
                    THEN 0 ELSE a[f]]

\* checkHB(file) of node n: the error it returns, NoErr for nil
checkHB(n, f) ==
    IF age[f] = NoHb
    THEN IF hbFrameSec * 2 < startAge[n] THEN NewErr("stuck") ELSE NoErr
    ELSE IF hbFrameSec * 2 < age[f] THEN NewErr("stuck") ELSE NoErr

checkFile(file) == stg[file] # NoFile

\* a poll in which the .error sibling never ends the wait
pollFile_ErrorNotFatal(n, wr, f) ==
    LET errFile == <<f, StatusError>>
        go(x) == [ret |-> FALSE, status |-> "", err |-> NoErr, w |-> x]
    IN
    IF stg[errFile] # NoFile
    THEN go([wr EXCEPT !.curErr = nodeErr(Base(f), stg[errFile]), !.objs = @ \ {f}])
    ELSE IF checkHB(n, f) # NoErr
    THEN LET e == Wrap(checkHB(n, f), "check heartbeat in " \o Path(f) \o "." \o syncHbSuffix) IN
         IF wr.status # StatusDone
         THEN [ret |-> TRUE, status |-> StatusError, err |-> e, w |-> wr]
         ELSE go([wr EXCEPT !.curErr = e, !.objs = @ \ {f}])
    ELSE IF checkFile(<<f, wr.status>>)
    THEN go([wr EXCEPT !.haveDone = TRUE, !.objs = @ \ {f}])
    ELSE IF wr.status # StatusDone
    THEN go(wr)
    ELSE IF checkFile(<<f, StatusPartlyDone>>)
    THEN go([wr EXCEPT !.retStatus = StatusPartlyDone, !.haveDone = TRUE,
                       !.objs = @ \ {f}])
    ELSE go(wr)

\* a poll that takes a stale heartbeat for a finished peer
pollFile_StaleIsDone(n, wr, f) ==
    LET errFile == <<f, StatusError>>
        go(x) == [ret |-> FALSE, status |-> "", err |-> NoErr, w |-> x]
    IN
    IF stg[errFile] # NoFile
    THEN LET e == nodeErr(Base(f), stg[errFile]) IN
         IF wr.status # StatusDone
         THEN [ret |-> TRUE, status |-> StatusError, err |-> e, w |-> wr]
         ELSE go([wr EXCEPT !.curErr = e, !.objs = @ \ {f}])
    ELSE IF checkHB(n, f) # NoErr
    THEN LET e == Wrap(checkHB(n, f), "check heartbeat in " \o Path(f) \o "." \o syncHbSuffix) IN
         IF wr.status # StatusDone
         THEN [ret |-> TRUE, status |-> StatusError, err |-> e, w |-> wr]
         ELSE go([wr EXCEPT !.haveDone = TRUE, !.objs = @ \ {f}])
    ELSE IF checkFile(<<f, wr.status>>)
    THEN go([wr EXCEPT !.haveDone = TRUE, !.objs = @ \ {f}])
    ELSE IF wr.status # StatusDone
    THEN go(wr)
    ELSE IF checkFile(<<f, StatusPartlyDone>>)
    THEN go([wr EXCEPT !.retStatus = StatusPartlyDone, !.haveDone = TRUE,
                       !.objs = @ \ {f}])
    ELSE go(wr)

\* ------------------------------------------------------------ waitFiles
\* One iteration of `for f := range objs` on the locals wr of node n, the
\* storage being st.  ret: waitFiles returns from inside the loop.
pollFileIn(st, n, wr, f) ==
    LET errFile == <<f, StatusError>>
        go(x) == [ret |-> FALSE, status |-> "", err |-> NoErr, w |-> x]
    IN
    IF st[errFile] # NoFile
    THEN LET e == nodeErr(Base(f), st[errFile]) IN
         IF wr.status # StatusDone
         THEN [ret |-> TRUE, status |-> StatusError, err |-> e, w |-> wr]
         ELSE go([wr EXCEPT !.curErr = e, !.objs = @ \ {f}])
    ELSE IF checkHB(n, f) # NoErr
    THEN LET e == Wrap(checkHB(n, f), "check heartbeat in " \o Path(f) \o "." \o syncHbSuffix) IN
         IF wr.status # StatusDone
         THEN [ret |-> TRUE, status |-> StatusError, err |-> e, w |-> wr]
         ELSE go([wr EXCEPT !.curErr = e, !.objs = @ \ {f}])
    ELSE IF st[<<f, wr.status>>] # NoFile
    THEN go([wr EXCEPT !.haveDone = TRUE, !.objs = @ \ {f}])
    ELSE IF wr.status # StatusDone
    THEN go(wr)
    ELSE IF st[<<f, StatusPartlyDone>>] # NoFile
    THEN go([wr EXCEPT !.retStatus = StatusPartlyDone, !.haveDone = TRUE,
                       !.objs = @ \ {f}])
    ELSE go(wr)

\* the iteration on the storage as it is
pollFile(n, wr, f) == pollFileIn(stg, n, wr, f)

\* a pass end that forgets the recorded error
passEnd_IgnoreErr(wr) ==
    IF wr.objs # {}
    THEN [ret |-> FALSE, status |-> "", err |-> NoErr, w |-> [wr EXCEPT !.todo = wr.objs]]
    ELSE [ret |-> TRUE, status |-> wr.retStatus, err |-> NoErr, w |-> wr]

\* a pass end without the partlyDone result
passEnd_NoPartly(wr) ==
    IF wr.objs # {}
    THEN [ret |-> FALSE, status |-> "", err |-> NoErr, w |-> [wr EXCEPT !.todo = wr.objs]]
    ELSE IF wr.curErr = NoErr
    THEN [ret |-> TRUE, status |-> wr.retStatus, err |-> NoErr, w |-> wr]
    ELSE [ret |-> TRUE, status |-> StatusError, err |-> wr.curErr, w |-> wr]

\* `if len(objs) == 0` after a pass over the pending set
passEnd(wr) ==
    IF wr.objs # {}
    THEN [ret |-> FALSE, status |-> "", err |-> NoErr, w |-> [wr EXCEPT !.todo = wr.objs]]
    ELSE IF wr.curErr = NoErr
    THEN [ret |-> TRUE, status |-> wr.retStatus, err |-> NoErr, w |-> wr]
    ELSE IF wr.haveDone /\ ~wr.cluster
    THEN [ret |-> TRUE, status |-> StatusPartlyDone, err |-> NoErr, w |-> wr]
    ELSE [ret |-> TRUE, status |-> StatusError, err |-> wr.curErr, w |-> wr]

\* waitFiles of node n polls f, the next object of the current pass
waitFiles(n, f) ==
    LET p == pollFile(n, w[n], f)
        wr == [p.w EXCEPT !.todo = (@ \ {f}) \cap p.w.objs]
    IN  IF p.ret THEN p
        ELSE IF wr.todo = {} THEN passEnd(wr)
        ELSE [ret |-> FALSE, status |-> "", err |-> NoErr, w |-> wr]

\* ------------------------------------------------------------ saving
\* stg.Save of a sequence of <<object, status, body>>, in order
RECURSIVE SaveAll(_, _)
SaveAll(st, saves) ==
    IF saves = <<>> THEN st
    ELSE SaveAll([st EXCEPT ![<<saves[1][1], saves[1][2]>>] = saves[1][3]], Tail(saves))

SavedFiles(saves) == [i \in 1..Len(saves) |-> <<saves[i][1], saves[i][2]>>]

\* a deferred function that marks the node as well
toStateDefer_MarkNode(n, status, e) ==
    << <<syncPathNode(n), StatusError, errStatus(e)>> >>
    \o
    (IF IsPrimary(n) /\ status # StatusDone
     THEN << <<syncPathRS(n), StatusError, errStatus(e)>> >> ELSE <<>>)

\* the deferred function of toState(status) on the error e: what it saves
toStateDefer(n, status, e) ==
    (IF IsPrimary(n) /\ status # StatusDone
     THEN << <<syncPathRS(n), StatusError, errStatus(e)>> >> ELSE <<>>)
    \o
    (IF IsClusterLeader(n) /\ status # StatusDone
     THEN << <<syncPathCluster, StatusError, errStatus(e)>> >> ELSE <<>>)

\* a MarkFailed that marks the replica set and the cluster from any node
MarkFailed_AnyNode(n, e, markCluster) ==
    LET e1 == IF e.isNodeErr THEN AsNodeErr(e) ELSE e IN
    << <<syncPathNode(n), StatusError, errStatus(e1)>> >>
    \o
    (IF markCluster
     THEN << <<syncPathRS(n), StatusError, errStatus(e1)>>,
             <<syncPathCluster, StatusError, errStatus(e1)>> >> ELSE <<>>)

\* MarkFailed(meta, e, markCluster): what it saves
MarkFailed(n, e, markCluster) ==
    LET e1 == IF e.isNodeErr THEN AsNodeErr(e) ELSE e IN
    << <<syncPathNode(n), StatusError, errStatus(e1)>> >>
    \o
    (IF IsPrimary(n) /\ markCluster
     THEN << <<syncPathRS(n), StatusError, errStatus(e1)>> >> ELSE <<>>)
    \o
    (IF IsClusterLeader(n) /\ markCluster
     THEN << <<syncPathCluster, StatusError, errStatus(e1)>> >> ELSE <<>>)

\* removeAll(dbpath): everything but the internal restore log is gone
removeAll == "wiped"

\* a close that cleans up on every error
close_AlwaysCleanup(d, noerr, cleanup) == IF ~noerr THEN removeAll ELSE d

\* a close that never cleans up
close_NeverCleanup(d, noerr, cleanup) == d

\* close(noerr, cleanup): the data directory it leaves
close(d, noerr, cleanup) == IF ~noerr /\ cleanup THEN removeAll ELSE d

\* the messages the callers wrap an error in
toStateMsg(p) ==
    CASE p = "ts_node" -> "write node state"
      [] p = "ts_peers" -> "wait for nodes in rs"
      [] p = "ts_saveRS" -> "write replset state"
      [] p = "ts_shards" -> "wait for shards"
      [] p = "ts_saveCluster" -> "write replset state"
      [] p = "ts_cluster" -> "wait for shards"

SnapshotMsg(p, status) ==
    CASE p \in ToStatePcs /\ status = StatusStarting -> "move to running state"
      [] p \in ToStatePcs /\ status # StatusStarting -> "moving to state " \o status
      [] p = "prepareBackup" -> "get backup metadata"
      [] p = "fl_down" -> "wait for datashards to shutdown"
      [] p = "fl_shutdown" -> "shutdown"
      [] p = "fl_remove" -> "write replset StatusDown"
      [] p = "copyFiles" -> "copy files"
      [] p = "prepareData" -> "prepare data"
      [] p = "recoverStandalone" -> "recover oplog as standalone"
      [] p = "resetRS" -> "clean-up, rs_reset"
      [] p \in {"dumpMeta", "dumpMetaSave"} -> "writing restore meta to storage"

\* The deferred function of Snapshot on the error e, after the saves pre of
\* the deferred function of toState; st and lg are the storage and the
\* history, d the data directory as the step left them.  MarkFailed unless
\* the local restore succeeded or the shard has no data, then close.
SnapshotExitD(n, e, pre, st, lg, d) ==
    LET saves == pre \o
                 (IF restoreDone \notin progress[n] /\ ~IsNoDataForShard(e)
                  THEN MarkFailed(n, e, restoreStared \notin progress[n]) ELSE <<>>)
    IN  /\ stg' = SaveAll(st, saves)
        /\ log' = [log EXCEPT ![n] = lg \o SavedFiles(saves)]
        /\ dbpath' = [dbpath EXCEPT ![n] =
                        close(d, FALSE, restoreStared \in progress[n]
                                        /\ restoreDone \notin progress[n])]
        /\ hbOn' = [hbOn EXCEPT ![n] = FALSE]
        /\ err' = [err EXCEPT ![n] = e]
        /\ pc' = [pc EXCEPT ![n] = "returned"]
        /\ w' = [w EXCEPT ![n] = NoWait]

\* the same, the data directory being as it was
SnapshotExit(n, e, pre, st, lg) == SnapshotExitD(n, e, pre, st, lg, dbpath[n])

\* Snapshot returns the error e0 raised at position p, toState(status)
\* running if p is inside toState: the deferred functions of toState (inside
\* toState only) and of Snapshot run.
SnapshotError(n, e0, p, status, st, lg) ==
    LET inTS == p \in ToStatePcs
        eTS == IF inTS THEN Wrap(e0, toStateMsg(p)) ELSE e0
        e == Wrap(eTS, SnapshotMsg(p, status))
    IN  SnapshotExit(n, e, IF inTS THEN toStateDefer(n, status, eTS) ELSE <<>>, st, lg)

\* the node goes on to position p
Goto(n, p, st, lg) ==
    /\ pc' = [pc EXCEPT ![n] = p]
    /\ w' = [w EXCEPT ![n] = NoWait]
    /\ stg' = st
    /\ log' = [log EXCEPT ![n] = lg]
    /\ UNCHANGED <<dbpath, hbOn, err>>

\* the node calls waitFiles(status, objs, cluster) at position p; an empty
\* map is an error at once
GotoWait(n, p, status, m, cluster, st, lg) ==
    IF m.keys = {}
    THEN SnapshotError(n, NewErr("empty objects maps"), p, tstatus[n], st, lg)
    ELSE /\ pc' = [pc EXCEPT ![n] = p]
         /\ w' = [w EXCEPT ![n] = [NewWait(status, m.keys, cluster) EXCEPT !.ref = m.ref]]
         /\ stg' = st
         /\ log' = [log EXCEPT ![n] = lg]
         /\ UNCHANGED <<dbpath, hbOn, err>>

\* stg.Save(file, okStatus()) by node n
SaveOk(f, status) == [stg EXCEPT ![<<f, status>>] = okStatus]
Logged(n, f, status) == Append(log[n], <<f, status>>)

\* ------------------------------------------------------------ agent
\* a restorePhysical that keeps the lock over Snapshot
lockRelease_Keep(n) ==
    /\ pc[n] = "lockRelease"
    /\ pc' = [pc EXCEPT ![n] = "init"]
    /\ UNCHANGED <<auxVars, arbiterOnly, paths, planVars, bcp, cancelled, second, lock, lockRel, tstatus, w, cstat, ret, err, progress,
                   mongod, primaryNow, dbpath, stg, age, startAge, hbOn, log, meta, fails,
                   crashes>>

\* restorePhysical: the lock is released before Snapshot is called
lockRelease(n) ==
    /\ pc[n] = "lockRelease"
    /\ lock' = [lock EXCEPT ![rsOf(n)] = ""]
    /\ lockRel' = lockRel \cup {n}
    /\ pc' = [pc EXCEPT ![n] = "init"]
    /\ UNCHANGED <<auxVars, arbiterOnly, paths, planVars, bcp, cancelled, second, tstatus, w, cstat, ret, err, progress,
                   mongod, primaryNow, dbpath, stg, age, startAge, hbOn, log, meta, fails,
                   crashes>>

\* restorePhysical: the primary tries the lock of its replica set and gives
\* up if another operation holds it; the other nodes take no lock
restorePhysical(n) ==
    /\ pc[n] = "restorePhysical"
    /\ IF ~IsPrimary(n)
       THEN /\ pc' = [pc EXCEPT ![n] = "init"]
            /\ UNCHANGED <<lock, err>>
       ELSE IF lock[rsOf(n)] = ""
       THEN /\ lock' = [lock EXCEPT ![rsOf(n)] = n]
            /\ pc' = [pc EXCEPT ![n] = "lockRelease"]
            /\ UNCHANGED err
       ELSE /\ pc' = [pc EXCEPT ![n] = "returned"]
            /\ err' = [err EXCEPT ![n] =
                         NewErr("unbale to run the restore while another operation running")]
            /\ UNCHANGED lock
    /\ UNCHANGED <<auxVars, arbiterOnly, paths, planVars, bcp, cancelled, second, lockRel, tstatus, w, cstat, ret, progress,
                   mongod, primaryNow, dbpath, stg, age, startAge, hbOn, log, meta, fails,
                   crashes>>

\* Restore is called for a second restore command while the first restore
\* of the node is in progress and the agent still listens to commands (it
\* is closed once toState(running) has returned).  restorePhysical reads the
\* node info and, on a primary, tries the lock: "busy" if the lock is held,
\* else "started": Snapshot is called a second time.
SecondRestore(n) ==
    /\ pc[n] \in {"lockRelease", "init", "prepareBackup"} \cup ToStatePcs
    /\ mongod[n] = "up"
    /\ second[n] = ""
    /\ second' = [second EXCEPT ![n] =
                    IF primaryNow[n] /\ lock[rsOf(n)] # "" THEN "busy" ELSE "started"]
    /\ UNCHANGED <<auxVars, arbiterOnly, paths, planVars, bcp, cancelled, lock, lockRel, pc, tstatus, w, cstat, ret, err,
                   progress, mongod, primaryNow, dbpath, stg, age, startAge, hbOn, log, meta,
                   fails, crashes>>

\* A cancellation reaches the agent of node n while its restore is before
\* the point of no return.  The agent cancels the current backup, and there
\* is none (a.bcp is nil): nothing reaches Snapshot, which takes no context
\* and no channel to be cancelled by.
Cancel(n) ==
    /\ pc[n] \in {"init"} \cup RunningPcs
    /\ restoreStared \notin progress[n] /\ mongod[n] = "up"
    /\ n \notin cancelled
    /\ cancelled' = cancelled \cup {n}
    /\ UNCHANGED <<auxVars, arbiterOnly, paths, planVars, bcp, second, lock, lockRel, pc, tstatus, w, cstat, ret, err,
                   progress, mongod, primaryNow, dbpath, stg, age, startAge, hbOn, log, meta,
                   fails, crashes>>

\* ------------------------------------------------------------ Snapshot
\* r.init: paths, startTS, the first heartbeat, the heartbeat task
init(n) ==
    /\ pc[n] = "init"
    /\ startAge' = [startAge EXCEPT ![n] = 0]
    /\ age' = hb(n, age)
    /\ pc' = [pc EXCEPT ![n] = "prepareBackup"]
    /\ hbOn' = [hbOn EXCEPT ![n] = TRUE]
    /\ paths' = [paths EXCEPT ![n].peers = syncPathPeers(n),
                              ![n].dataShards = syncPathDataShards(n)]
    /\ UNCHANGED <<auxVars, arbiterOnly, planVars, bcp, cancelled, second, lock, lockRel, tstatus, w, cstat, ret, err, progress, mongod, primaryNow, dbpath,
                   stg, log, meta, fails, crashes>>

\* a prepareBackup that restores a backup whatever its status is
prepareBackupErr_AnyStatus(n) ==
    IF ~CompatibleWith(bcp.PBMVersion, BreakingChanges)
    THEN NewErr("backup version is not compatible with PBM")
    ELSE IF majmin(bcp.MongoVersion) # majmin(GetMongoVersion)
    THEN NewErr("backup's Mongo version is not compatible with Mongo")
    ELSE IF rsOf(n) \notin bcp.Replsets
    THEN Wrap(NewErr("no data in the backup for the replica set"), "get data for restore")
    ELSE IF bcp.Replsets \ ClusterMembers # {}
    THEN NewErr("extra/unknown replica set found in the backup")
    ELSE IF rsOf(n) \notin bcp.Replsets
    THEN IF IsLeader(n)
         THEN NewErr("no data for the config server or sole rs in backup")
         ELSE ErrNoDataForShard
    ELSE NoErr

\* the checks of prepareBackup: the error it returns, NoErr for nil.
\* setBcpFiles, which finds no section of the replica set in the backup, is
\* called before the check that gives ErrNoDataForShard.
prepareBackupErr(n) ==
    IF bcp.Status # StatusDone
    THEN NewErr("backup wasn't successful")
    ELSE IF ~CompatibleWith(bcp.PBMVersion, BreakingChanges)
    THEN NewErr("backup version is not compatible with PBM")
    ELSE IF majmin(bcp.MongoVersion) # majmin(GetMongoVersion)
    THEN NewErr("backup's Mongo version is not compatible with Mongo")
    ELSE IF rsOf(n) \notin bcp.Replsets
    THEN Wrap(NewErr("no data in the backup for the replica set"), "get data for restore")
    ELSE IF bcp.Replsets \ ClusterMembers # {}
    THEN NewErr("extra/unknown replica set found in the backup")
    ELSE IF rsOf(n) \notin bcp.Replsets
    THEN IF IsLeader(n)
         THEN NewErr("no data for the config server or sole rs in backup")
         ELSE ErrNoDataForShard
    ELSE NoErr

\* prepareBackup: on an error Snapshot returns it as it is; else setTmpConf
\* passes and Snapshot calls toState(starting)
prepareBackup(n) ==
    /\ pc[n] = "prepareBackup"
    \* r.syncPathShards is made once the cluster members are known, before
    \* the last three checks
    /\ paths' = IF prepareBackupErr(n) \in
                     {NoErr, NewErr("extra/unknown replica set found in the backup"),
                      NewErr("no data for the config server or sole rs in backup"),
                      ErrNoDataForShard}
                THEN [paths EXCEPT ![n].shards = syncPathShards(n)]
                ELSE paths
    /\ IF prepareBackupErr(n) # NoErr
       THEN /\ SnapshotExit(n, prepareBackupErr(n), <<>>, stg, log[n])
            /\ UNCHANGED tstatus
       ELSE /\ tstatus' = [tstatus EXCEPT ![n] = StatusStarting]
            /\ Goto(n, "ts_node", stg, log[n])
    /\ UNCHANGED <<auxVars, arbiterOnly, planVars, bcp, cancelled, second, lock, lockRel, cstat, ret, progress, mongod, primaryNow, age, startAge, meta,
                   fails, crashes>>

\* toState: the node writes its own status, then waits for its peers (the
\* primary, or every node for done), for the shards (the cluster leader, or
\* every node for done) or for the cluster
toStateSaveNode(n) ==
    /\ pc[n] = "ts_node"
    /\ LET S == tstatus[n]
           st == SaveOk(syncPathNode(n), S)
           lg == Logged(n, syncPathNode(n), S)
       IN  IF IsPrimary(n) \/ S = StatusDone
           THEN GotoWait(n, "ts_peers", S, copyMap(FieldMap(n, "peers")), FALSE, st, lg)
           ELSE IF IsClusterLeader(n) \/ S = StatusDone
           THEN GotoWait(n, "ts_shards", S, copyMap(FieldMap(n, "shards")), TRUE, st, lg)
           ELSE GotoWait(n, "ts_cluster", S, NewMap({syncPathCluster}), TRUE, st, lg)
    /\ UNCHANGED <<auxVars, arbiterOnly, paths, planVars, bcp, cancelled, second, lock, lockRel, tstatus, cstat, ret, progress, mongod, primaryNow, age, startAge,
                   meta, fails, crashes>>

\* toState: the replica set status the wait for the peers gave is written
toStateSaveRS(n) ==
    /\ pc[n] = "ts_saveRS"
    /\ LET S == tstatus[n]
           st == SaveOk(syncPathRS(n), cstat[n])
           lg == Logged(n, syncPathRS(n), cstat[n])
       IN  IF IsClusterLeader(n) \/ S = StatusDone
           THEN GotoWait(n, "ts_shards", S, copyMap(FieldMap(n, "shards")), TRUE, st, lg)
           ELSE GotoWait(n, "ts_cluster", S, NewMap({syncPathCluster}), TRUE, st, lg)
    /\ UNCHANGED <<auxVars, arbiterOnly, paths, planVars, bcp, cancelled, second, lock, lockRel, tstatus, cstat, ret, progress, mongod, primaryNow, age, startAge,
                   meta, fails, crashes>>

\* toState: the cluster status the wait for the shards gave is written
toStateSaveCluster(n) ==
    /\ pc[n] = "ts_saveCluster"
    /\ LET S == tstatus[n]
           st == SaveOk(syncPathCluster, cstat[n])
           lg == Logged(n, syncPathCluster, cstat[n])
       IN  GotoWait(n, "ts_cluster", S, NewMap({syncPathCluster}), TRUE, st, lg)
    /\ UNCHANGED <<auxVars, arbiterOnly, paths, planVars, bcp, cancelled, second, lock, lockRel, tstatus, cstat, ret, progress, mongod, primaryNow, age, startAge,
                   meta, fails, crashes>>

\* Snapshot returns nil: close(true, false)
SnapshotReturn(n) ==
    /\ pc' = [pc EXCEPT ![n] = "returned"]
    /\ w' = [w EXCEPT ![n] = NoWait]
    /\ hbOn' = [hbOn EXCEPT ![n] = FALSE]
    /\ dbpath' = [dbpath EXCEPT ![n] = close(@, TRUE, FALSE)]
    /\ UNCHANGED <<err, stg, log>>

\* a flush in which the config server does not wait for the data shards
flushStart_NoFence(n) == Goto(n, "fl_shutdown", stg, log[n])

\* flush starts when toState(running) has returned: the config server waits
\* for every data shard to publish rs.down
flushStart(n) ==
    IF IsConfigSrv(n)
    THEN GotoWait(n, "fl_down", StatusDown, FieldMap(n, "dataShards"), FALSE, stg, log[n])
    ELSE Goto(n, "fl_shutdown", stg, log[n])

\* a Snapshot that calls flush when toState(starting) has returned
toStateReturn_FlushAfterStarting(n, status) ==
    /\ ret' = [ret EXCEPT ![n][tstatus[n]] = status]
    /\ cstat' = [cstat EXCEPT ![n] = status]
    /\ IF tstatus[n] # StatusDone
       THEN /\ tstatus' = [tstatus EXCEPT ![n] = ""]
            /\ flushStart(n)
       ELSE /\ tstatus' = [tstatus EXCEPT ![n] = ""]
            /\ Goto(n, "dumpMeta", stg, log[n])

\* a Snapshot that writes the summary when toState(running) has returned
toStateReturn_MetaAfterRunning(n, status) ==
    /\ ret' = [ret EXCEPT ![n][tstatus[n]] = status]
    /\ cstat' = [cstat EXCEPT ![n] = status]
    /\ IF tstatus[n] = StatusStarting
       THEN /\ tstatus' = [tstatus EXCEPT ![n] = StatusRunning]
            /\ Goto(n, "ts_node", stg, log[n])
       ELSE /\ tstatus' = [tstatus EXCEPT ![n] = ""]
            /\ Goto(n, "dumpMeta", stg, log[n])

\* toState(tstatus) returns (status, nil) to Snapshot
toStateReturn(n, status) ==
    /\ ret' = [ret EXCEPT ![n][tstatus[n]] = status]
    /\ cstat' = [cstat EXCEPT ![n] = status]
    /\ IF tstatus[n] = StatusStarting
       THEN /\ tstatus' = [tstatus EXCEPT ![n] = StatusRunning]
            /\ Goto(n, "ts_node", stg, log[n])
       ELSE IF tstatus[n] = StatusRunning
       THEN /\ tstatus' = [tstatus EXCEPT ![n] = ""]
            /\ flushStart(n)
       ELSE /\ tstatus' = [tstatus EXCEPT ![n] = ""]
            /\ Goto(n, "dumpMeta", stg, log[n])

\* waitFiles returned (status, nil) to its caller
waitFilesReturn(n, status) ==
    IF pc[n] = "ts_peers"
    THEN /\ Goto(n, "ts_saveRS", stg, log[n])
         /\ cstat' = [cstat EXCEPT ![n] = status]
         /\ UNCHANGED <<auxVars, arbiterOnly, planVars, bcp, cancelled, second, lock, lockRel, tstatus, ret>>
    ELSE IF pc[n] = "ts_shards"
    THEN /\ Goto(n, "ts_saveCluster", stg, log[n])
         /\ cstat' = [cstat EXCEPT ![n] = status]
         /\ UNCHANGED <<auxVars, arbiterOnly, planVars, bcp, cancelled, second, lock, lockRel, tstatus, ret>>
    ELSE IF pc[n] = "ts_cluster"
    THEN toStateReturn(n, status)
    ELSE /\ Goto(n, "fl_shutdown", stg, log[n])
         /\ UNCHANGED <<auxVars, arbiterOnly, planVars, bcp, cancelled, second, lock, lockRel, tstatus, cstat, ret>>

\* what the waiter of n does with the outcome r of a poll: it goes on, or
\* waitFiles returns
waitFilesOutcome(n, r) ==
    \* delete(objs, f) acts on the map the caller handed over
    /\ paths' = IF w[n].ref = "" THEN paths
                ELSE [paths EXCEPT ![n][w[n].ref] = r.w.objs]
    /\ IF ~r.ret
       THEN /\ w' = [w EXCEPT ![n] = r.w]
            /\ UNCHANGED <<pc, tstatus, cstat, ret, err, dbpath, stg, hbOn, log>>
       ELSE IF r.err # NoErr
       THEN /\ SnapshotError(n, r.err, pc[n], tstatus[n], stg, log[n])
            /\ UNCHANGED <<auxVars, arbiterOnly, planVars, bcp, cancelled, second, lock, lockRel, tstatus, cstat, ret>>
       ELSE waitFilesReturn(n, r.status)
    /\ UNCHANGED <<auxVars, arbiterOnly, planVars, bcp, cancelled, second, lock, lockRel, progress, mongod, primaryNow, age, startAge, meta, crashes>>

\* waitFiles polls the object f in its current pass
waitFilesPoll(n, f) ==
    /\ pc[n] \in WaitPcs
    /\ f \in w[n].todo
    /\ waitFilesOutcome(n, waitFiles(n, f))
    /\ UNCHANGED fails

\* the iteration on f in which checkHB cannot read the heartbeat object:
\* the error of checkHB is handled as that of a stale heartbeat is
pollFileHbErr(wr, f) ==
    LET e == Wrap(Wrap(NewErr("io"), "get hb file"),
                  "check heartbeat in " \o Path(f) \o "." \o syncHbSuffix)
    IN  IF wr.status # StatusDone
        THEN [ret |-> TRUE, status |-> StatusError, err |-> e, w |-> wr]
        ELSE [ret |-> FALSE, status |-> "", err |-> NoErr,
              w |-> [wr EXCEPT !.curErr = e, !.objs = @ \ {f}]]

\* waitFiles polls f, the storage failing to hand out <f>.hb
waitFilesPollHbFail(n, f) ==
    /\ pc[n] \in WaitPcs
    /\ f \in w[n].todo
    /\ stg[<<f, StatusError>>] = NoFile
    /\ age[f] # NoHb
    /\ fails < MaxFail
    /\ fails' = fails + 1
    /\ LET p == pollFileHbErr(w[n], f)
           wr == [p.w EXCEPT !.todo = (@ \ {f}) \cap p.w.objs]
       IN  waitFilesOutcome(n, IF p.ret THEN p
                               ELSE IF wr.todo = {} THEN passEnd(wr)
                               ELSE [ret |-> FALSE, status |-> "", err |-> NoErr, w |-> wr])

\* a flush that shuts the database down whatever the role of the node is
flushShutdown_NoStepDownWait(n) ==
    /\ pc[n] = "fl_shutdown"
    /\ mongod' = [mongod EXCEPT ![n] = "down"]
    /\ primaryNow' = [primaryNow EXCEPT ![n] = FALSE]
    /\ Goto(n, "fl_remove", stg, log[n])
    /\ UNCHANGED <<auxVars, arbiterOnly, paths, planVars, bcp, cancelled, second, lock, lockRel, tstatus, cstat, ret, progress, age, startAge, meta, fails, crashes>>

\* flush: the node shuts its database down once it is not primary (the only
\* member of a replica set does not wait), and waits for the lock file
flushShutdown(n) ==
    /\ pc[n] = "fl_shutdown"
    /\ ~primaryNow[n] \/ Cardinality(Members(rsOf(n))) = 1
    /\ mongod' = [mongod EXCEPT ![n] = "down"]
    /\ primaryNow' = [primaryNow EXCEPT ![n] = FALSE]
    /\ Goto(n, "fl_remove", stg, log[n])
    /\ UNCHANGED <<auxVars, arbiterOnly, paths, planVars, bcp, cancelled, second, lock, lockRel, tstatus, cstat, ret, progress, age, startAge, meta, fails, crashes>>

\* flush: the primary publishes rs.down, the data directory is wiped;
\* Snapshot sets restoreStared
flushRemove(n) ==
    /\ pc[n] = "fl_remove"
    /\ stg' = IF IsPrimary(n) THEN SaveOk(syncPathRS(n), StatusDown) ELSE stg
    /\ log' = [log EXCEPT ![n] = IF IsPrimary(n) THEN Logged(n, syncPathRS(n), StatusDown)
                                 ELSE @]
    /\ dbpath' = [dbpath EXCEPT ![n] = removeAll]
    /\ progress' = [progress EXCEPT ![n] = @ \cup {restoreStared}]
    /\ pc' = [pc EXCEPT ![n] = "copyFiles"]
    /\ UNCHANGED <<auxVars, arbiterOnly, paths, planVars, bcp, cancelled, second, lock, lockRel, tstatus, w, cstat, ret, err, mongod, primaryNow, age, startAge, hbOn,
                   meta, fails, crashes>>

\* a local step of Snapshot that leaves the data directory in state d
LocalStep(n, p, q, d) ==
    /\ pc[n] = p
    /\ dbpath' = [dbpath EXCEPT ![n] = d]
    /\ pc' = [pc EXCEPT ![n] = q]

copyFiles(n) ==
    /\ LocalStep(n, "copyFiles", "prepareData", "copied")
    /\ UNCHANGED <<auxVars, arbiterOnly, paths, planVars, bcp, cancelled, second, lock, lockRel, tstatus, w, cstat, ret, err, progress, mongod, primaryNow, stg, age,
                   startAge, hbOn, log, meta, fails, crashes>>

prepareData(n) ==
    /\ LocalStep(n, "prepareData", "recoverStandalone", "prepared")
    /\ UNCHANGED <<auxVars, arbiterOnly, paths, planVars, bcp, cancelled, second, lock, lockRel, tstatus, w, cstat, ret, err, progress, mongod, primaryNow, stg, age,
                   startAge, hbOn, log, meta, fails, crashes>>

recoverStandalone(n) ==
    /\ LocalStep(n, "recoverStandalone", "resetRS", "recovered")
    /\ UNCHANGED <<auxVars, arbiterOnly, paths, planVars, bcp, cancelled, second, lock, lockRel, tstatus, w, cstat, ret, err, progress, mongod, primaryNow, stg, age,
                   startAge, hbOn, log, meta, fails, crashes>>

\* the reset boot passes: Snapshot sets restoreDone and calls toState(done)
resetRS(n) ==
    /\ LocalStep(n, "resetRS", "ts_node", "restored")
    /\ progress' = [progress EXCEPT ![n] = @ \cup {restoreDone}]
    /\ tstatus' = [tstatus EXCEPT ![n] = StatusDone]
    /\ UNCHANGED <<auxVars, arbiterOnly, paths, planVars, bcp, cancelled, second, lock, lockRel, w, cstat, ret, err, mongod, primaryNow, stg, age,
                   startAge, hbOn, log, meta, fails, crashes>>

\* pbm.GetPhysRestoreMeta: the statuses it may report for the restore, read
\* from the cluster objects on the storage; none if it fails
GetPhysRestoreMeta ==
    {x \in {StatusDone, StatusPartlyDone, StatusError} : checkFile(<<syncPathCluster, x>>)}

\* dumpMeta: an existing summary is left alone
dumpMeta(n) ==
    /\ pc[n] = "dumpMeta"
    /\ IF meta.status # ""
       THEN SnapshotReturn(n)
       ELSE /\ pc' = [pc EXCEPT ![n] = "dumpMetaSave"]
            /\ UNCHANGED <<w, hbOn, dbpath, err, stg, log>>
    /\ UNCHANGED <<auxVars, arbiterOnly, paths, planVars, bcp, cancelled, second, lock, lockRel, tstatus, cstat, ret, progress, mongod, primaryNow, age, startAge,
                   meta, fails, crashes>>

\* dumpMeta(meta, s, ""): the summary is written with the status read from
\* the storage, or with s if that cannot be read; Snapshot returns nil
dumpMetaSave(n) ==
    /\ pc[n] = "dumpMetaSave"
    /\ \E c \in (IF GetPhysRestoreMeta = {} \/ cstat[n] = StatusError
                 THEN {cstat[n]} ELSE GetPhysRestoreMeta) :
          meta' = [status |-> c, writers |-> Append(meta.writers, n)]
    /\ SnapshotReturn(n)
    /\ UNCHANGED <<auxVars, arbiterOnly, paths, planVars, bcp, cancelled, second, lock, lockRel, tstatus, cstat, ret, progress, mongod, primaryNow, age, startAge,
                   fails, crashes>>

\* ------------------------------------------------------------ a whole toState
\* waitFiles run to its end on the frozen storage st and clock: the passes
\* over wr.todo; ret is FALSE if an object stays pending, so that the wait
\* does not end
RECURSIVE waitFilesRun(_, _, _)
waitFilesRun(st, n, wr) ==
    LET f == CHOOSE x \in wr.todo : TRUE
        p == pollFileIn(st, n, wr, f)
        wr2 == [p.w EXCEPT !.todo = (@ \ {f}) \cap p.w.objs]
    IN  IF p.ret THEN p
        ELSE IF wr2.todo = {} THEN passEnd(wr2)
        ELSE waitFilesRun(st, n, wr2)

\* waitFiles(status, objs, cluster) as a whole
waitFilesWhole(st, n, status, objs, cluster) ==
    IF objs = {}
    THEN [ret |-> TRUE, status |-> StatusError, err |-> NewErr("empty objects maps"),
          w |-> NoWait]
    ELSE waitFilesRun(st, n, NewWait(status, objs, cluster))

\* the only element of a set of one
Only(set) == CHOOSE x \in set : TRUE

\* toState ends by the error of the wait r, or does not end: the status
\* (error, or "" if it does not return) and the storage it leaves
toStateEnd(n, S, st, r, msg) ==
    IF ~r.ret THEN [status |-> "", stg |-> st]
    ELSE [status |-> StatusError,
          stg |-> SaveAll(st, toStateDefer(n, S, Wrap(r.err, msg)))]

\* a toState that returns without the wait for the cluster object
toStateCluster_NoWait(n, S, st) == [status |-> S, stg |-> st]

\* toState from `waiting for cluster` on
toStateCluster(n, S, st) ==
    Only({IF ~r.ret \/ r.err # NoErr THEN toStateEnd(n, S, st, r, "wait for shards")
          ELSE [status |-> r.status, stg |-> st] :
          r \in {waitFilesWhole(st, n, S, {syncPathCluster}, TRUE)}})

\* toState from `waiting for shards` on
toStateShards(n, S, st) ==
    IF IsClusterLeader(n) \/ S = StatusDone
    THEN Only({IF ~r.ret \/ r.err # NoErr THEN toStateEnd(n, S, st, r, "wait for shards")
               ELSE toStateCluster(n, S, Only({[st EXCEPT ![<<syncPathCluster, r.status>>]
                                                            = okStatus]})) :
               r \in {waitFilesWhole(st, n, S, syncPathShards(n), TRUE)}})
    ELSE toStateCluster(n, S, st)

\* toState from `waiting for status in rs` on
toStatePeers(n, S, st) ==
    IF IsPrimary(n) \/ S = StatusDone
    THEN Only({IF ~r.ret \/ r.err # NoErr
               THEN toStateEnd(n, S, st, r, "wait for nodes in rs")
               ELSE toStateShards(n, S, Only({[st EXCEPT ![<<syncPathRS(n), r.status>>]
                                                           = okStatus]})) :
               r \in {waitFilesWhole(st, n, S, syncPathPeers(n), FALSE)}})
    ELSE toStateShards(n, S, st)

\* toState(S) of node n run as a whole on the storage st, the clock and the
\* other nodes standing still: the status it returns and the storage it
\* leaves
toStateWhole(n, S, st) ==
    toStatePeers(n, S, Only({[st EXCEPT ![<<syncPathNode(n), S>>] = okStatus]}))

\* restorePhysical: what the agent returns for the error e of Snapshot; a
\* shard without data in the backup is skipped
restorePhysicalResult(e) == IF e # NoErr /\ IsNoDataForShard(e) THEN NoErr ELSE e

\* ------------------------------------------------------------ environment
\* the primary of a replica set steps down when another member is down
StepDown(n) ==
    /\ primaryNow[n]
    /\ mongod[n] = "up"
    /\ \E m \in (Members(rsOf(n)) \ arbiterOnly) \ {n} : mongod[m] = "down"
    /\ primaryNow' = [primaryNow EXCEPT ![n] = FALSE]
    /\ UNCHANGED <<auxVars, arbiterOnly, paths, planVars, bcp, cancelled, second, lock, lockRel, pc, tstatus, w, cstat, ret, err, progress, mongod, dbpath, stg, age,
                   startAge, hbOn, log, meta, fails, crashes>>

\* init returns an error.  GetConfig or pbm.Storage fails: r.stg is nil, and
\* the deferred MarkFailed of Snapshot calls Save on it: the agent dies of
\* the nil dereference, nothing is written.  GetShards fails (config server):
\* the storage and the paths are set, Snapshot returns the error.
initFail(n) ==
    /\ pc[n] = "init"
    /\ fails < MaxFail
    /\ fails' = fails + 1
    /\ \/ /\ pc' = [pc EXCEPT ![n] = "panicked"]
          /\ UNCHANGED <<stg, log, dbpath, hbOn, err, w, startAge, paths>>
       \/ /\ IsConfigSrv(n)
          /\ startAge' = [startAge EXCEPT ![n] = 0]
          /\ paths' = [paths EXCEPT ![n].peers = syncPathPeers(n)]
          /\ SnapshotExit(n, Wrap(Wrap(NewErr("io"), "get data shards"), "init"),
                          <<>>, stg, log[n])
    /\ UNCHANGED <<auxVars, arbiterOnly, planVars, bcp, cancelled, second, lock, lockRel, tstatus, cstat, ret, progress,
                   mongod, primaryNow, age, meta, crashes>>

\* what removeAll leaves behind when it returns an error
removeAllFailed == {"original", "partly removed"}

\* flush: removeAll returns an error, having removed none or some of the
\* files; the primary has published rs.down
flushRemoveFail(n) ==
    /\ pc[n] = "fl_remove"
    /\ fails < MaxFail
    /\ fails' = fails + 1
    /\ \E d \in removeAllFailed :
          SnapshotExitD(n, Wrap(NewErr("io"), "flush dbpath"), <<>>,
                        IF IsPrimary(n) THEN SaveOk(syncPathRS(n), StatusDown) ELSE stg,
                        IF IsPrimary(n) THEN Logged(n, syncPathRS(n), StatusDown)
                        ELSE log[n],
                        d)
    /\ UNCHANGED <<auxVars, arbiterOnly, paths, planVars, bcp, cancelled, second, lock, lockRel, tstatus, cstat, ret, progress,
                   mongod, primaryNow, age, startAge, meta, crashes>>

\* an operation of the node returns an error
Fail(n) ==
    /\ pc[n] \in RunningPcs
    /\ fails < MaxFail
    /\ fails' = fails + 1
    /\ SnapshotError(n, NewErr("io"), pc[n], tstatus[n], stg, log[n])
    /\ UNCHANGED <<auxVars, arbiterOnly, paths, planVars, bcp, cancelled, second, lock, lockRel, tstatus, cstat, ret, progress, mongod, primaryNow, age, startAge,
                   meta, crashes>>

\* the agent of the node stops silently
Crash(n) ==
    /\ pc[n] \in {"init"} \cup RunningPcs
    /\ crashes < MaxCrash
    /\ crashes' = crashes + 1
    /\ pc' = [pc EXCEPT ![n] = "crashed"]
    /\ hbOn' = [hbOn EXCEPT ![n] = FALSE]
    /\ w' = [w EXCEPT ![n] = NoWait]
    /\ UNCHANGED <<auxVars, arbiterOnly, paths, planVars, bcp, cancelled, second, lock, lockRel, tstatus, cstat, ret, err, progress, mongod, primaryNow, dbpath, stg,
                   age, startAge, log, meta, fails>>

Older(a) == IF a = NoHb THEN NoHb ELSE IF a + TickSec > MaxAge THEN MaxAge
            ELSE a + TickSec

\* no node is about to save a status object in toState, and no waiter has a
\* poll left that changes its state
Quiescent ==
    \A n \in Nodes :
       /\ pc[n] \notin ToStatePcs \ WaitPcs
       /\ pc[n] \in WaitPcs =>
             \A f \in w[n].objs :
                LET p == pollFile(n, w[n], f) IN ~p.ret /\ p.w = w[n]

\* the clock advances by TickSec; the heartbeat tasks that run beat
Tick ==
    /\ \A n \in Nodes : pc[n] \notin {"restorePhysical", "lockRelease", "init"}
    /\ Quiescent
    /\ age' = [f \in Objs |->
                 IF \E n \in Nodes : hbOn[n] /\ hb(n, [g \in Objs |-> NoHb])[f] = 0
                 THEN 0 ELSE Older(age[f])]
    /\ startAge' = [n \in Hosts |-> Older(startAge[n])]
    /\ UNCHANGED <<auxVars, arbiterOnly, paths, planVars, bcp, cancelled, second, lock, lockRel, pc, tstatus, w, cstat, ret, err, progress, mongod, primaryNow, dbpath,
                   stg, hbOn, log, meta, fails, crashes>>

NodeStep(n) ==
    \/ restorePhysical(n)
    \/ lockRelease(n)
    \/ init(n)
    \/ prepareBackup(n)
    \/ toStateSaveNode(n)
    \/ toStateSaveRS(n)
    \/ toStateSaveCluster(n)
    \/ \E f \in Objs : waitFilesPoll(n, f)
    \/ flushShutdown(n)
    \/ flushRemove(n)
    \/ copyFiles(n)
    \/ prepareData(n)
    \/ recoverStandalone(n)
    \/ resetRS(n)
    \/ dumpMeta(n)
    \/ dumpMetaSave(n)

Next ==
    \/ \E n \in Hosts : NodeStep(n)
    \/ \E n \in Hosts : StepDown(n)
    \/ \E n \in Hosts : Fail(n)
    \/ \E n \in Hosts : initFail(n)
    \/ \E n \in Hosts : flushRemoveFail(n)
    \/ \E n \in Hosts : Crash(n)
    \/ Tick

Spec == Init /\ [][Next]_vars

\* every running process keeps taking steps, the clock keeps advancing
Fairness ==
    /\ \A n \in Hosts : WF_vars(NodeStep(n))
    /\ \A n \in Hosts : WF_vars(StepDown(n))
    /\ WF_vars(Tick)

FairSpec == Init /\ [][Next]_vars /\ Fairness

\* a run in which no node fails and no operation returns an error
NextClean ==
    \/ \E n \in Hosts : NodeStep(n)
    \/ \E n \in Hosts : StepDown(n)
    \/ Tick

\* the target backup of a clean run holds every replica set and passes the
\* checks
InitClean == Init /\ bcp = GoodBackup /\ lock = [r \in Replsets |-> ""]

CleanSpec == InitClean /\ [][NextClean]_vars /\ Fairness

\* a run in which nodes stop silently and no operation returns an error
NextCrash ==
    \/ \E n \in Hosts : NodeStep(n)
    \/ \E n \in Hosts : StepDown(n)
    \/ \E n \in Hosts : Crash(n)
    \/ Tick

CrashSpec == Init /\ [][NextCrash]_vars /\ Fairness

\* a run without faults in which second restore commands arrive
NextAttempt ==
    \/ \E n \in Hosts : NodeStep(n)
    \/ \E n \in Hosts : StepDown(n)
    \/ \E n \in Hosts : SecondRestore(n)
    \/ Tick

AttemptSpec == Init /\ [][NextAttempt]_vars

\* a run without faults in which cancellations arrive
NextCancel ==
    \/ \E n \in Hosts : NodeStep(n)
    \/ \E n \in Hosts : StepDown(n)
    \/ \E n \in Hosts : Cancel(n)
    \/ Tick

CancelSpec == Init /\ [][NextCancel]_vars

\* a run in which, besides, the read of a heartbeat object may fail
NextHbFail ==
    \/ \E n \in Hosts : NodeStep(n)
    \/ \E n \in Hosts : StepDown(n)
    \/ \E n \in Hosts : Fail(n)
    \/ \E n \in Hosts : initFail(n)
    \/ \E n \in Hosts : flushRemoveFail(n)
    \/ \E n \in Hosts : Crash(n)
    \/ Tick
    \/ \E n \in Hosts : \E f \in Objs : waitFilesPollHbFail(n, f)

HbFailSpec == Init /\ [][NextHbFail]_vars

\* a run of the planner and of copy on a chain
InitPlan ==
    /\ InitRestore /\ bcp = GoodBackup /\ lock = [r \in Replsets |-> ""]
    /\ chain \in Chains
    /\ rfiles = <<>>
    /\ disk = EmptyDisk
    /\ ppc = "setBcpFiles"

\* setBcpFiles for the last backup of the chain as the target
\* setBcpFiles for the last backup of the chain as the target.  Without a
\* section in the target it returns an error; a source backup without one
\* leaves rs nil, and the next round of the loop reads rs.Files
setBcpFiles ==
    /\ ppc = "setBcpFiles"
    /\ IF getRS(chain[Len(chain)]) = nil
       THEN ppc' = "error" /\ UNCHANGED rfiles
       ELSE IF ~SourcesHaveRS(chain[Len(chain)])
       THEN ppc' = "panicked" /\ UNCHANGED rfiles
       ELSE /\ \E ord \in Orders(targetFiles(chain[Len(chain)])) :
                  rfiles' = plan(chain[Len(chain)], ord)
            /\ ppc' = "copyFiles"
    /\ UNCHANGED <<chain, disk, restoreVars>>

\* copyFiles into the flushed data directory
copyFilesAll ==
    /\ ppc = "copyFiles"
    /\ disk' = copyFrames(EmptyDisk, rfiles)
    /\ ppc' = "copied"
    /\ UNCHANGED <<chain, rfiles, restoreVars>>

NextPlan == setBcpFiles \/ copyFilesAll

PlanSpec == InitPlan /\ [][NextPlan]_vars

\* the planner and copy on chains in which a backup may lack the section
InitGap ==
    /\ InitRestore /\ bcp = GoodBackup /\ lock = [r \in Replsets |-> ""]
    /\ chain \in Chains \cup GapChains
    /\ rfiles = <<>>
    /\ disk = EmptyDisk
    /\ ppc = "setBcpFiles"

GapSpec == InitGap /\ [][NextPlan]_vars

\* a run of the callers of the log buffer of one node
NextLog ==
    \/ \E c \in Callers : \E p \in Payloads : WriteCall(c, p)
    \/ \E c \in Callers : FlushCall(c)
    \/ \E c \in Callers : flushWrite(c)
    \/ \E c \in Callers : flushReset(c)
    \/ \E c \in Callers : WriteAppend(c)

LogSpec == InitClean /\ [][NextLog]_vars

\* a run of the nomination of one replica set for one backup
NextNom ==
    \/ \E nodes \in BatchLists : nominateRS(nodes)
    \/ nominateGet
    \/ nominateSet
    \/ \E n \in Candidates : waitNomination(n)
    \/ \E n \in Candidates : nominationTimeout(n)
    \/ \E n \in Candidates : acquireLock(n)
    \/ \E n \in Candidates : SetRSNomineeACK(n)
    \/ \E n \in Candidates : Release(n)

NomSpec == InitClean /\ [][NextNom]_vars

\* ------------------------------------------------------------ properties
Exists(f, status) == stg[<<f, status>>] # NoFile
\* the node-scoped statuses node n saved, in order
RECURSIVE NodeScoped(_, _)
NodeScoped(n, lg) ==
    IF lg = <<>> THEN <<>>
    ELSE IF lg[1][1] = NodeObj(n) THEN <<lg[1][2]>> \o NodeScoped(n, Tail(lg))
    ELSE NodeScoped(n, Tail(lg))
\* the files of lg2 that come after its prefix lg1
Added(lg1, lg2) == {lg2[i] : i \in (Len(lg1) + 1)..Len(lg2)}

\* C1: for S in {starting, running} no node returns from toState(S) unless
\* cluster.S exists; cluster.S exists only when every replica set has
\* published rs.S and every non-arbiter member has written node.<host>.S; no
\* database is down and no data directory touched before every node has
\* written node.running.
C1_Barrier ==
    /\ \A n \in Nodes : \A S \in {StatusStarting, StatusRunning} :
          ret[n][S] # "" => ret[n][S] = S /\ Exists(syncPathCluster, S)
    /\ \A S \in {StatusStarting, StatusRunning} :
          Exists(syncPathCluster, S) =>
             /\ \A r \in Replsets : Exists(RSObj(r), S)
             /\ \A m \in Nodes : Exists(NodeObj(m), S)
    /\ \A n \in Nodes :
          (mongod[n] = "down" \/ dbpath[n] # "original") =>
             /\ ret[n][StatusRunning] = StatusRunning
             /\ \A m \in Nodes : Exists(NodeObj(m), StatusRunning)

C1_Witness ==
    \E n \in Nodes : mongod[n] = "down" /\ dbpath[n] = removeAll

\* C2: once the reset boot has passed on a node (restoreDone), no step makes
\* the node save an error object of any scope or change its data directory.
C2_RestoredNeverFailed ==
    [][\A n \in Nodes :
         restoreDone \in progress[n] =>
            /\ \A f \in Added(log[n], log'[n]) : f[2] # StatusError
            /\ dbpath'[n] = "restored"]_vars

C2_Witness ==
    \E n \in Nodes : /\ restoreDone \in progress[n]
                     /\ pc[n] = "returned"
                     /\ err[n] # NoErr

\* C3: the node-scoped statuses a node writes are a prefix of starting,
\* running, done, optionally followed by one error, after which nothing is
\* written.
C3_Order ==
    \A n \in Nodes :
       LET q == NodeScoped(n, log[n])
           full == <<StatusStarting, StatusRunning, StatusDone>>
       IN  \E k \in 0..3 :
              \/ q = SubSeq(full, 1, k)
              \/ q = Append(SubSeq(full, 1, k), StatusError)

C3_Witness ==
    \E n \in Nodes :
       NodeScoped(n, log[n]) = <<StatusStarting, StatusRunning, StatusError>>

\* C4: where rs.R.done exists, every non-arbiter member of R has written
\* node.<host>.done or node.<host>.error.
C4_RsDone ==
    \A r \in Replsets :
       Exists(RSObj(r), StatusDone) =>
          \A m \in Members(r) \ arbiterOnly :
             Exists(NodeObj(m), StatusDone) \/ Exists(NodeObj(m), StatusError)

C4_Witness ==
    Exists(RSObj("sh"), StatusDone)

\* C5: where cluster.done exists, every replica set has published rs.done or
\* rs.partlyDone.
C5_ClusterDone ==
    Exists(syncPathCluster, StatusDone) =>
       \A r \in Replsets :
          Exists(RSObj(r), StatusDone) \/ Exists(RSObj(r), StatusPartlyDone)

C5_Witness ==
    Exists(syncPathCluster, StatusDone)

\* the status a replica set has published, an error first
RsStatus(r) ==
    IF Exists(RSObj(r), StatusError) THEN StatusError
    ELSE IF Exists(RSObj(r), StatusDone) THEN StatusDone
    ELSE IF Exists(RSObj(r), StatusPartlyDone) THEN StatusPartlyDone
    ELSE ""
\* the union rule over the replica sets
UnionRule ==
    IF \A r \in Replsets : RsStatus(r) = StatusDone THEN StatusDone
    ELSE IF \A r \in Replsets : RsStatus(r) \in {StatusDone, StatusPartlyDone}
    THEN StatusPartlyDone
    ELSE StatusError

\* C6: the status the wait for the shards of toState(done) gives, which the
\* node writes as the cluster object, is done iff every replica set is done,
\* partlyDone if every replica set is done or partlyDone and one is
\* partlyDone, and an error in every other case.
C6_UnionRule ==
    [][\A n \in Nodes :
         (/\ pc[n] = "ts_shards" /\ tstatus[n] = StatusDone
          /\ pc'[n] \in {"ts_saveCluster", "returned"}
          /\ fails' = fails)
         => IF UnionRule = StatusError
            THEN pc'[n] = "returned" /\ err'[n] # NoErr
            ELSE pc'[n] = "ts_saveCluster" /\ cstat'[n] = UnionRule]_vars

\* a member of the replica set of n has written done, another one error
Mixed(n) ==
    LET peers == Members(rsOf(n)) \ arbiterOnly IN
    \E m \in peers : /\ Exists(NodeObj(m), StatusDone)
                     /\ \E k \in peers \ {m} : Exists(NodeObj(k), StatusError)

\* C7: in toState(done), with one member done and another one in error, the
\* wait for the peers gives partlyDone; the node writes rs.partlyDone, and
\* nothing else, and goes on to the wait for the shards.
C7_PartlyDone ==
    [][\A n \in Nodes :
         (tstatus[n] = StatusDone /\ Mixed(n) /\ fails' = fails /\ crashes' = crashes)
         => /\ (pc[n] = "ts_peers" /\ pc'[n] # "ts_peers")
                => pc'[n] = "ts_saveRS" /\ cstat'[n] = StatusPartlyDone
            /\ (pc[n] = "ts_saveRS" /\ pc'[n] # "ts_saveRS")
                => /\ pc'[n] = "ts_shards"
                   /\ Added(log[n], log'[n]) = {<<syncPathRS(n), StatusPartlyDone>>}
                   /\ Exists(syncPathRS(n), StatusPartlyDone)']_vars

C7_Witness ==
    \E n \in Nodes : /\ pc[n] = "ts_shards" /\ tstatus[n] = StatusDone
                     /\ Mixed(n)
                     /\ Exists(syncPathRS(n), StatusPartlyDone)

\* C8: in toState(S), S starting or running, a poll that finds the .error
\* sibling of an awaited object makes Snapshot return an error that carries
\* the peer's error; toState(S) does not return S; the primary has written
\* rs.error and the cluster leader cluster.error.
C8_ErrorFatal ==
    [][\A n \in Nodes : \A f \in Objs :
         (/\ pc[n] \in {"ts_peers", "ts_shards", "ts_cluster"}
          /\ tstatus[n] \in {StatusStarting, StatusRunning}
          /\ Exists(f, StatusError)
          /\ waitFilesPoll(n, f))
         => /\ pc'[n] = "returned"
            /\ AsNodeErr(err'[n]) = nodeErr(Base(f), stg[<<f, StatusError>>])
            /\ ret'[n][tstatus[n]] = ""
            /\ IsPrimary(n) => Exists(syncPathRS(n), StatusError)'
            /\ IsClusterLeader(n) => Exists(syncPathCluster, StatusError)']_vars

C8_Witness ==
    \E n \in Nodes : /\ pc[n] = "returned" /\ err[n].isNodeErr
                     /\ tstatus[n] = StatusRunning
                     /\ IsClusterLeader(n)
                     /\ Exists(syncPathCluster, StatusError)

\* node n is inside toState(S)
InToState(n, S) == pc[n] \in ToStatePcs /\ tstatus[n] = S

\* C9: once a node has crashed, every node that is inside toState(S), or in
\* the wait of the config server for rs.down, eventually leaves it.
C9_NoWaiterBlocksForever ==
    \A n \in Hosts :
       /\ \A S \in ToStateStatuses :
             (crashes > 0 /\ InToState(n, S)) ~> ~InToState(n, S)
       /\ (crashes > 0 /\ pc[n] = "fl_down") ~> (pc[n] # "fl_down")

\* every node has returned done from toState(done)
AllDone == \A n \in Nodes : ret[n][StatusDone] = StatusDone

\* C10: in a run without failures every node eventually returns done from
\* toState(done) and Snapshot returns nil; cluster.done and every
\* node.<host>.done then exist, and the summary ends with status done.
C10_CleanRunDone ==
    /\ <>[](/\ AllDone
            /\ \A n \in Nodes : pc[n] = "returned" /\ err[n] = NoErr
            /\ meta.status = StatusDone)
    /\ [](AllDone => /\ Exists(syncPathCluster, StatusDone)
                     /\ \A n \in Nodes : Exists(NodeObj(n), StatusDone))
    /\ [](meta.status \in {"", StatusDone})

C10_Witness ==
    /\ AllDone
    /\ \A n \in Nodes : pc[n] = "returned"
    /\ meta.status = StatusDone

\* node m stopped silently while it copied the files, and it is the only
\* fault of the run
CrashedInCopy(m) ==
    /\ pc[m] = "crashed"
    /\ restoreStared \in progress[m] /\ dbpath[m] = removeAll
    /\ crashes = 1 /\ fails = 0
\* the members of the replica set of m that go on
Survivors(m) == (Members(rsOf(m)) \ arbiterOnly) \ {m}
\* the node returned partlyDone from toState(done), and Snapshot nil
ReturnedPartly(n) ==
    /\ pc[n] = "returned" /\ err[n] = NoErr
    /\ ret[n][StatusDone] = StatusPartlyDone

\* C11: when a data node stops silently during copy, as the only fault, and
\* another member of its replica set goes on, no node takes the replica set
\* or the cluster for done: rs.done and cluster.done are never written, a
\* node that returns has got partlyDone from toState(done) with
\* rs.partlyDone and cluster.partlyDone written; and every node that goes on
\* does return so, unless another fault occurs.
C11_CrashInCopy ==
    /\ [](\A m \in Nodes : (CrashedInCopy(m) /\ Survivors(m) # {}) =>
            /\ ~Exists(syncPathRS(m), StatusDone)
            /\ ~Exists(syncPathCluster, StatusDone)
            /\ \A n \in Nodes \ {m} :
                  /\ ret[n][StatusDone] \in {"", StatusPartlyDone}
                  /\ pc[n] = "returned" =>
                        /\ ReturnedPartly(n)
                        /\ Exists(syncPathRS(m), StatusPartlyDone)
                        /\ Exists(syncPathCluster, StatusPartlyDone))
    /\ (\E m \in Nodes : CrashedInCopy(m) /\ Survivors(m) # {})
          ~> (\/ crashes > 1 \/ fails > 0
              \/ \A n \in Nodes : pc[n] = "crashed" \/ ReturnedPartly(n))

C11_Witness ==
    \E m \in Nodes : /\ CrashedInCopy(m) /\ Survivors(m) # {}
                     /\ \A n \in Nodes \ {m} : ReturnedPartly(n)
                     /\ Exists(syncPathRS(m), StatusPartlyDone)
                     /\ Exists(syncPathCluster, StatusPartlyDone)

\* the replica set of n has no section in the target backup, n is not of the
\* config server or sole replica set, and the backup passes the other checks
NoDataNode(n) ==
    /\ rsOf(n) \notin bcp.Replsets /\ ~IsLeader(n)
    /\ [bcp EXCEPT !.Replsets = Replsets] = GoodBackup
\* the error objects node n has saved
ErrorsSaved(n) == {i \in 1..Len(log[n]) : log[n][i][2] = StatusError}

\* C12: a node whose replica set has no section in the backup returns
\* success and saves no error object of any scope; and, with no other fault,
\* no node of a replica set that has data returns an error from Snapshot.
C12_NoDataShard ==
    \A n \in Nodes :
       (NoDataNode(n) /\ fails = 0 /\ crashes = 0) =>
          /\ pc[n] = "returned" =>
                restorePhysicalResult(err[n]) = NoErr /\ ErrorsSaved(n) = {}
          /\ \A m \in Nodes :
                (rsOf(m) \in bcp.Replsets /\ pc[m] = "returned") => err[m] = NoErr

\* the status objects on the storage st
ObjectsOn(st) == {f \in Files : st[f] # NoFile}
\* the status toState(S) gave on node n: what it returned, error if Snapshot
\* returned its error
Observed(n, S) ==
    IF pc[n] = "returned" /\ err[n] # NoErr THEN StatusError ELSE ret[n][S]

\* toState(S) ends on node n in this step, not by an injected fault
Ends(n, S) ==
    InToState(n, S) /\ ~InToState(n, S)' /\ fails' = fails /\ crashes' = crashes
\* a second run of toState(S) on the storage st gives status and leaves the
\* set of status objects of st
Again(n, S, st, status) ==
    \E q \in {toStateWhole(n, S, st)} :
       q.status = status /\ ObjectsOn(q.stg) = ObjectsOn(st)
\* the objects toState(S) of node n waits for
Awaited(n, S) ==
    (IF IsPrimary(n) \/ S = StatusDone THEN syncPathPeers(n) ELSE {})
    \cup (IF IsClusterLeader(n) \/ S = StatusDone THEN syncPathShards(n) ELSE {})
    \cup {syncPathCluster}
\* none of them has an .error sibling or a stale heartbeat
NoTrouble(n, S) ==
    \A f \in Awaited(n, S) : ~Exists(f, StatusError) /\ checkHB(n, f) = NoErr

\* C13: toState is idempotent.  In every reachable state, for every node
\* and every S, a run of toState(S) that returns, followed by a second run
\* on the storage the first one left (the other nodes and the clock standing
\* still), gives the same status twice and the second run leaves the set of
\* status objects as the first run left it.  The same holds against the run
\* the node really made, interleaved with the other nodes: when that run
\* returns S and nothing awaited is in trouble, or ends in an error for
\* starting or running, a second run gives the same status and adds no
\* object.
C13_Idempotent ==
    /\ [](\A n \in Nodes : \A S \in ToStateStatuses :
            \E r \in {toStateWhole(n, S, stg)} :
               r.status # "" => Again(n, S, r.stg, r.status))
    /\ [][\A n \in Nodes : \A S \in ToStateStatuses :
            /\ (Ends(n, S) /\ Observed(n, S)' = S /\ NoTrouble(n, S)')
                  => Again(n, S, stg, S)'
            /\ (Ends(n, S) /\ S # StatusDone /\ Observed(n, S)' = StatusError)
                  => Again(n, S, stg, StatusError)']_vars

C13_Witness ==
    \E n \in Nodes : /\ ret[n][StatusDone] = StatusPartlyDone
                     /\ Again(n, StatusDone, stg, StatusPartlyDone)

\* node n holds the restore lock of its replica set
HoldsLock(n) == lock[rsOf(n)] = n

Happened(n) ==
    {e \in {"lock acquired", "lock released", "starting", "running", "flush", "copy",
            "boots", "done"} :
       \/ e = "lock acquired" /\ (HoldsLock(n) \/ n \in lockRel)
       \/ e = "lock released" /\ n \in lockRel
       \/ e \in ToStateStatuses /\ Exists(NodeObj(n), e)
       \/ e = "flush" /\ mongod[n] = "down"
       \/ e = "copy" /\ restoreStared \in progress[n]
       \/ e = "boots" /\ dbpath[n] \in {"copied", "prepared", "recovered", "restored"}}
\* the events that occur on node n at all: only the primary takes the lock
Applicable(n) ==
    IF IsPrimary(n)
    THEN {"lock acquired", "lock released", "starting", "running", "flush", "copy",
          "boots", "done"}
    ELSE {"starting", "running", "flush", "copy", "boots", "done"}
\* the events that have occurred on every node respect the order ord
InOrder(ord) ==
    \A n \in Nodes : \A i \in 1..Len(ord) :
       ord[i] \in Happened(n) =>
          \A j \in 1..(i - 1) : ord[j] \in Applicable(n) => ord[j] \in Happened(n)
\* at most one event occurs on a node in a step
OneAtATime == \A n \in Nodes : Cardinality(Happened(n)' \ Happened(n)) <= 1

\* C15 as stated: on every node the local events occur one at a time in the
\* order lock acquired, starting written, flush, copy, running written,
\* boots, done written, lock released.
C15_OrderAsStated ==
    /\ [] InOrder(<<"lock acquired", "starting", "flush", "copy", "running", "boots",
                    "done", "lock released">>)
    /\ [][OneAtATime]_vars

\* C15: on every node the local events occur one at a time in the order
\* lock acquired, lock released, starting written, running written, flush,
\* copy, boots, done written.
C15_LocalOrder ==
    /\ [] InOrder(<<"lock acquired", "lock released", "starting", "running", "flush",
                    "copy", "boots", "done">>)
    /\ [][OneAtATime]_vars

C15_Witness ==
    \E n \in Nodes : IsPrimary(n) /\ Happened(n) = Applicable(n)

\* C16: a second restore command that arrives on a node while its restore
\* is in progress is refused as busy; Snapshot is not called a second time.
C16_OneRestore ==
    \A n \in Nodes : second[n] \in {"", "busy"}

\* node n is in Snapshot before the point of no return
BeforeNoReturn(n) ==
    pc[n] \in {"init"} \cup RunningPcs /\ restoreStared \notin progress[n]

\* C17: when the restore of a node ends in an error before the point of no
\* return (in init, the backup checks, toState(starting), toState(running)
\* or flush), other than for a shard without data, its data directory is as
\* it was and node.<host>.error is on the storage.
C17_FailBeforeNoReturn ==
    [][\A n \in Nodes :
         (/\ BeforeNoReturn(n)
          /\ pc'[n] \in {"returned", "panicked"}
          /\ ~IsNoDataForShard(err'[n]))
         => /\ dbpath'[n] = "original"
            /\ Exists(NodeObj(n), StatusError)']_vars

\* node n is past flush and the reset boot has not passed
AfterNoReturn(n) ==
    /\ pc[n] \in LocalPcs
    /\ restoreStared \in progress[n] /\ restoreDone \notin progress[n]

NotRestorable ==
    \/ bcp.Status # StatusDone
    \/ ~CompatibleWith(bcp.PBMVersion, BreakingChanges)
    \/ majmin(bcp.MongoVersion) # majmin(GetMongoVersion)
\* no database is stopped and no data directory touched
NothingFlushed == \A n \in Nodes : mongod[n] = "up" /\ dbpath[n] = "original"

\* C19 as stated: when the target backup is not restorable (and no other
\* fault occurs), no database is stopped, no data directory is touched and
\* no node writes a status object.
C19_NothingWritten ==
    (NotRestorable /\ fails = 0) => NothingFlushed /\ \A n \in Nodes : log[n] = <<>>

\* C19: when the target backup is not restorable, no database is stopped
\* and no data directory is touched; the only status objects a node writes
\* are error objects, and a node whose Snapshot has returned has returned an
\* error and written node.<host>.error.
C19_NotRestorable ==
    NotRestorable =>
       /\ NothingFlushed
       /\ \A n \in Nodes :
             /\ \A i \in 1..Len(log[n]) : log[n][i][2] = StatusError
             /\ pc[n] = "returned" /\ lock[rsOf(n)] # OtherOp =>
                   err[n] # NoErr /\ Exists(NodeObj(n), StatusError)

C19_Witness ==
    /\ NotRestorable
    /\ \A n \in Nodes : pc[n] = "returned" /\ Exists(NodeObj(n), StatusError)
    /\ Exists(syncPathCluster, StatusError)
    /\ fails = 0

\* C20: a node whose restore got a cancellation before the point of no
\* return does not stop its database and does not touch its data directory,
\* and when its Snapshot has returned node.<host>.error is on the storage.
C20_Cancelled ==
    \A n \in Nodes :
       n \in cancelled =>
          /\ mongod[n] = "up" /\ dbpath[n] = "original"
          /\ pc[n] = "returned" => Exists(NodeObj(n), StatusError)

\* the nodes that have saved the status object <<f, status>>
Writers(f, status) ==
    {n \in Hosts : \E i \in 1..Len(log[n]) : log[n][i] = <<f, status>>}

\* C21: no node of the config server replica set has its database down
\* unless every data shard has published rs.down; the rs.down of a data
\* shard is saved by the primary of that shard alone, whose database is down
\* by then.
C21_Fence ==
    /\ \A n \in Nodes :
          (IsConfigSrv(n) /\ mongod[n] = "down") =>
             \A r \in GetShards : Exists(RSObj(r), StatusDown)
    /\ \A r \in Replsets :
          /\ \A n \in Writers(RSObj(r), StatusDown) :
                rsOf(n) = r /\ IsPrimary(n) /\ mongod[n] = "down"
          /\ Exists(RSObj(r), StatusDown) => Writers(RSObj(r), StatusDown) # {}

C21_Witness ==
    /\ \E n \in Nodes : IsConfigSrv(n) /\ mongod[n] = "down"
    /\ \A r \in Replsets : Writers(RSObj(r), StatusDown) # {}

\* the replica set of n has one member (rsStat.Members)
SingleNode(n) == Cardinality(Members(rsOf(n))) = 1

\* C22: in flush the only member of a replica set can be shut down at once
\* although it is primary; the database of a node of a larger replica set
\* goes down only at a step before which the node is not primary.
C22_ShutdownRole ==
    /\ [](\A n \in Nodes :
            (pc[n] = "fl_shutdown" /\ SingleNode(n)) =>
               primaryNow[n] /\ ENABLED flushShutdown(n))
    /\ [][\A n \in Nodes :
            (mongod[n] = "up" /\ mongod'[n] = "down" /\ ~SingleNode(n))
            => ~primaryNow[n]]_vars

C22_Witness ==
    /\ \E n \in Nodes : SingleNode(n) /\ IsPrimary(n) /\ mongod[n] = "down"
    /\ \E n \in Nodes : ~SingleNode(n) /\ IsPrimary(n) /\ mongod[n] = "down"

\* the planner and copy have run
Copied == ppc = "copied"
\* the target backup of the chain
Target == chain[Len(chain)]
\* the names of the chain are relative to the data directory
Relative == \A i \in 1..Len(chain) : \A f \in Range(Section(chain[i])) : f.Name[1] # ""
\* the record f of backup b holds byte p of its file
Covers(f, b, p) ==
    /\ f.Off >= 0 /\ f.Len >= 0
    /\ IF f.Len = 0 /\ f.Off = 0 THEN p <= Len(b.data[f.Name])
       ELSE f.Off < p /\ p <= f.Off + f.Len
\* the backups of the chain that hold byte p of the file name
Covering(name, p) ==
    {i \in 1..Len(chain) :
        \E f \in Range(Section(chain[i])) : f.Name = name /\ Covers(f, chain[i], p)}
Latest(S) == CHOOSE i \in S : \A j \in S : j <= i
\* every byte of a restored file is the byte of the latest backup that holds it
LatestWins ==
    \A name \in targetFiles(Target) :
       Join(name) \in DOMAIN disk.files =>
          \A p \in 1..Len(disk.files[Join(name)]) :
             Covering(name, p) # {} =>
                disk.files[Join(name)][p] = chain[Latest(Covering(name, p))].data[name][p]
\* the restored files are the files of the data directory at the target backup
TargetRestored ==
    /\ DOMAIN disk.files = {Join(name) : name \in DOMAIN Target.data}
    /\ \A name \in DOMAIN Target.data : disk.files[Join(name)] = Target.data[name]

\* C23: after copy has applied the plan of a chain, every byte of every
\* restored file is the byte of the most recent backup whose recorded range
\* holds it, and the restored files are byte for byte the files of the
\* target backup.
C23_ByteForByte ==
    (Copied /\ Relative) => LatestWins /\ TargetRestored

\* for chains in which no file is empty the restored files are those of the
\* target backup
NonEmptyRestored ==
    (Copied /\ Relative /\ \A i \in 1..Len(chain) : \A n \in DOMAIN chain[i].data :
                               chain[i].data[n] # <<>>)
    => LatestWins /\ TargetRestored

\* the latest backup that holds a byte gives it, in every chain
LatestWinsAlways == (Copied /\ Relative) => LatestWins

\* the planner has run
Planned == ppc \in {"copyFiles", "copied"}
\* the frames of the backups in r.files: all but the directory frame
BcpFrames == SelectSeq(rfiles, LAMBDA fr : fr.BcpName # bcpDir)
\* the records of a section a frame has to hold
Wanted(b) ==
    {f \in Range(Section(b)) : f.Name \in targetFiles(Target) /\ f.Off >= 0 /\ f.Len >= 0}

\* C24: the planner gives one frame per backup of the chain, the target
\* first, then the source of each backup in turn, the last one being of the
\* backup without source; a frame holds exactly the records of the section
\* of its backup (files and journal) whose name is in the target file list
\* and whose offset and length are not negative.
C24_Frames ==
    Planned =>
       /\ Len(BcpFrames) = Len(chain)
       /\ \A i \in 1..Len(BcpFrames) : rfiles[i] = BcpFrames[i]
       /\ BcpFrames[1].BcpName = Target.Name
       /\ \A i \in 1..(Len(BcpFrames) - 1) :
             BcpFrames[i + 1].BcpName = GetBackupMeta(BcpFrames[i].BcpName).SrcBackup
       /\ GetBackupMeta(BcpFrames[Len(BcpFrames)].BcpName).SrcBackup = ""
       /\ \A i \in 1..Len(BcpFrames) :
             LET b == GetBackupMeta(BcpFrames[i].BcpName) IN
             /\ Range(BcpFrames[i].Data) = Wanted(b)
             /\ Len(BcpFrames[i].Data) = Cardinality(Wanted(b))

C24_Witness ==
    /\ Planned /\ Len(chain) >= 2
    /\ \E f \in Range(Section(chain[1])) : f.Name \notin targetFiles(Target)
    /\ \E f \in Range(Section(Target)) : f.Off < 0
    /\ \E i \in 1..Len(rfiles) : rfiles[i].BcpName = chain[1].Name /\ rfiles[i].Data # <<>>

\* the names of the target file list that no backup of the chain holds data
\* of: offset and length are negative in every backup
NeverEmitted ==
    {name \in targetFiles(Target) :
        \A i \in 1..Len(chain) : \A f \in Range(Section(chain[i])) :
           f.Name = name => (f.Off < 0 /\ f.Len < 0)}
\* the directory frames of r.files, and their records
DirFrames == SelectSeq(rfiles, LAMBDA fr : fr.BcpName = bcpDir)
DirRecords == IF DirFrames = <<>> THEN <<>> ELSE DirFrames[1].Data
\* the records of the directory frame for the directory dir
RecordsOf(dir) == {k \in 1..Len(DirRecords) : Dir(DirRecords[k].Name) = dir}
\* copy has made the parent directory of name and no file of that name, and
\* has not failed on an object that is not on the storage
CreatedEmpty(name) ==
    Copied => /\ ~disk.err
              /\ Join(Dir(name)) \in disk.dirs \cup {<<>>}
              /\ Join(name) \notin DOMAIN disk.files

\* C25 as stated: the parent directory of every name of the target file
\* list that no frame holds is once in the directory frame and copy creates
\* it without reading; without such a name there is no directory frame.
C25_EveryParent ==
    Planned =>
       /\ \A name \in NeverEmitted :
             Cardinality(RecordsOf(Dir(name))) = 1 /\ CreatedEmpty(name)
       /\ NeverEmitted = {} => DirFrames = <<>>

\* the names of NeverEmitted that lie in a directory of the data directory
InSubdir == {name \in NeverEmitted : Dir(name) # <<>>}

\* C25: for every name of the target file list that no frame holds and that
\* does not lie in the data directory itself, the parent directory is once
\* in the directory frame, which is the last frame of r.files and holds
\* nothing else, and copy creates the directory without reading from the
\* storage; a name that lies in the data directory itself gives no record;
\* without a name of the first kind there is no directory frame.
C25_DirFrame ==
    Planned =>
       /\ \A name \in InSubdir :
             Cardinality(RecordsOf(Dir(name))) = 1 /\ CreatedEmpty(name)
       /\ \A name \in NeverEmitted \ InSubdir : CreatedEmpty(name)
       /\ \A k \in 1..Len(DirRecords) :
             /\ DirRecords[k].Name \in InSubdir
             /\ DirRecords[k].Off < 0 /\ DirRecords[k].Len < 0
       /\ Len(DirFrames) = (IF InSubdir = {} THEN 0 ELSE 1)
       /\ DirFrames # <<>> => rfiles[Len(rfiles)] = DirFrames[1]

C25_Witness ==
    /\ Copied /\ DirFrames # <<>> /\ Len(chain) >= 2
    /\ \E a, b \in InSubdir : a # b /\ Dir(a) = Dir(b)
    /\ NeverEmitted # InSubdir
    /\ \E name \in InSubdir : Join(Dir(name)) \in disk.dirs

\* the prefix of the names of a backup taken with absolute names
Prefix == <<"", "data">>
\* the base backup of the chain has names with the prefix, a journal file
\* among them
PrefixedBase ==
    /\ \A f \in Range(Section(chain[1])) : TrimPrefix(f.Name, Prefix) # f.Name
    /\ \E f \in Range(Section(chain[1])) : f.Name = Prefix \o <<"journal", "j">>
\* the paths of the data directory that lie under <storage path>/<P>
UnderPrefix(names) == {q \in names : Len(q) >= 1 /\ q[1] = Prefix[2]}
\* the frame of the base backup has the prefix as its dbpath
BaseFrameHasPrefix == \A i \in 1..Len(rfiles) : rfiles[i].BcpName = chain[1].Name => rfiles[i].dbpath = Prefix
\* every file of the target is at its path without the prefix
AllStripped ==
    DOMAIN disk.files = {TrimPrefix(name, Prefix) : name \in DOMAIN Target.data}

\* C26: for a chain whose base backup has names with the prefix P of a data
\* directory, a journal file P/journal/j among them, the frame of the base
\* has the dbpath P and copy writes every file of the chain to its path
\* without P; neither a file nor a directory is created under
\* <storage path>/P.
C26_Stripped ==
    (Copied /\ PrefixedBase) =>
       /\ BaseFrameHasPrefix
       /\ AllStripped
       /\ UnderPrefix(DOMAIN disk.files) = {} /\ UnderPrefix(disk.dirs) = {}

\* when every frame of a backup holds a journal file the files are at their
\* paths without the prefix: only the directory frame is left without dbpath
JournalInEveryFrame ==
    \A i \in 1..Len(BcpFrames) : \E f \in Range(BcpFrames[i].Data) : findDBpath(f.Name).prefix # <<>>
StrippedWithJournals ==
    (Copied /\ PrefixedBase /\ JournalInEveryFrame) =>
       /\ BaseFrameHasPrefix /\ AllStripped /\ UnderPrefix(DOMAIN disk.files) = {}

\* the restore has reached a terminal state: a terminal status object of the
\* cluster is on the storage
Terminal ==
    \E x \in {StatusDone, StatusPartlyDone, StatusError} : checkFile(<<syncPathCluster, x>>)

ByRole(n, obj) ==
    \/ obj[1] = syncPathNode(n)
    \/ obj[1] = syncPathRS(n) /\ IsPrimary(n)
    \/ obj[1] = syncPathCluster /\ IsClusterLeader(n)
\* a status object of a replica set or of the cluster that tells the end of
\* the restore
DoneObject(obj) ==
    /\ obj[1] \in {syncPathRS(m) : m \in Hosts} \cup {syncPathCluster}
    /\ obj[2] \in {StatusDone, StatusPartlyDone}

\* C28: no node saves a node object of another node; a node saves
\* rs.starting, rs.running, rs.down or rs.error only as the primary of that
\* replica set and cluster.starting, cluster.running or cluster.error only
\* as the cluster leader; what a node saves beyond its role is rs.done,
\* rs.partlyDone, cluster.done or cluster.partlyDone, and it does so while
\* it is in toState(done).
C28_WritersByRole ==
    /\ [](\A n \in Hosts : \A i \in 1..Len(log[n]) :
             ByRole(n, log[n][i]) \/ DoneObject(log[n][i]))
    /\ [][\A n \in Hosts : \A obj \in Added(log[n], log'[n]) :
             ~ByRole(n, obj) => tstatus[n] = StatusDone]_vars

C28_Witness ==
    /\ \E n \in Nodes : ~IsPrimary(n) /\ <<syncPathRS(n), StatusDone>> \in Range(log[n])
    /\ \E n \in Nodes : ~IsClusterLeader(n) /\ <<syncPathCluster, StatusDone>> \in Range(log[n])
    /\ \E n \in Nodes : IsPrimary(n) /\ ~IsClusterLeader(n)
                           /\ <<syncPathRS(n), StatusDown>> \in Range(log[n])

\* node n has published its error and has not written node.<n>.S
FailedBefore(n, S) == Exists(NodeObj(n), StatusError) /\ ~Exists(NodeObj(n), S)
\* Snapshot of node m has returned an error
ReturnedError(m) == pc[m] = "returned" /\ err[m] # NoErr

\* C29: when a node has published node.<host>.error before it has written
\* node.<host>.S, S being starting or running, every other node that is
\* inside toState(S) and does not stop eventually returns an error.
C29_ErrorReachesWaiters ==
    \A n \in Hosts : \A m \in Hosts \ {n} : \A S \in {StatusStarting, StatusRunning} :
       (FailedBefore(n, S) /\ InToState(m, S)) ~> (ReturnedError(m) \/ pc[m] = "crashed")

\* the error e is the verdict of checkHB on the heartbeat of the object f
Verdict(e, f) ==
    /\ e.text = <<"stuck">>
    /\ \E i \in 1..Len(e.wrap) :
          e.wrap[i] = "check heartbeat in " \o Path(f) \o "." \o syncHbSuffix
\* node m has declared the object f stuck: in the error Snapshot returned or
\* in the error its wait has recorded
StuckOn(m, f) == Verdict(err[m], f) \/ Verdict(w[m].curErr, f)
\* the heartbeat task of node k writes the heartbeat of the object f
Beats(k, f) == f \in {syncPathNode(k), syncPathRS(k), syncPathCluster}
\* the heartbeat of f is older than two periods for the observer m, or there
\* is none and the restore of m has started more than two periods ago
Stale(m, f) ==
    IF age[f] = NoHb THEN startAge[m] > 2 * hbFrameSec ELSE age[f] > 2 * hbFrameSec

\* C30: a waiter declares an awaited object stuck only when the latest
\* heartbeat of the object is more than two periods old, or when there is
\* no heartbeat and its own restore has started more than two periods ago;
\* and never when the object is one that a node whose heartbeat task is
\* running writes heartbeats for.
C30_NoStuckWhileBeating ==
    [][\A m \in Hosts : \A f \in Objs :
          (~StuckOn(m, f) /\ StuckOn(m, f)') =>
             /\ Stale(m, f)
             /\ \A k \in Nodes : hbOn[k] => ~Beats(k, f)]_vars

C30_Witness ==
    \E m \in Nodes : \E f \in Objs :
       /\ StuckOn(m, f) /\ pc[m] = "returned"
       /\ \E k \in Nodes \ {m} : hbOn[k]

\* node n is in a wait of toState(done)
InDoneWait(n) == pc[n] \in {"ts_peers", "ts_shards", "ts_cluster"} /\ tstatus[n] = StatusDone
\* the poll of f by node n counts f as done: done is seen, no error is kept
CountsAsDone(n, f) ==
    LET p == pollFile(n, w[n], f) IN
    /\ p.w.haveDone /\ p.w.curErr = w[n].curErr
    /\ f \notin p.w.objs /\ p.w.retStatus = w[n].retStatus

\* C31: in a wait of toState(done) a poll of an object whose done object is
\* written (and that has no error object) counts the object as done, however
\* old its heartbeat is: it records no error for it.
C31_StaleDoneIsDone ==
    \A n \in Nodes :
       InDoneWait(n) =>
          \A f \in w[n].todo :
             (Exists(f, StatusDone) /\ ~Exists(f, StatusError)) => CountsAsDone(n, f)

\* with a heartbeat that is not stale the done object counts
FreshDoneIsDone ==
    \A n \in Nodes :
       InDoneWait(n) =>
          \A f \in w[n].todo :
             (Exists(f, StatusDone) /\ ~Exists(f, StatusError) /\ ~Stale(n, f))
                => CountsAsDone(n, f)

\* ------------------------------------------------------------ C32
\* a node that has entered toState at least once
EnteredToState(n) == tstatus[n] # ""
\* the waiter of n is inside, or past, a wait that toState started
WaitedInToState(n) ==
    \/ pc[n] \in {"ts_saveRS", "ts_shards", "ts_saveCluster", "ts_cluster"}
    \/ \E S \in {StatusStarting, StatusRunning, StatusDone} : ret[n][S] # ""

\* C32: the pending sets syncPathPeers and syncPathShards of a node are
\* never changed by a toState call: during and after every toState, whatever
\* its outcome, both hold exactly the members they got at initialisation,
\* and no step of a node inside toState changes them.
C32_PendingSetsKept ==
    /\ [](\A n \in Hosts : EnteredToState(n) =>
            /\ paths[n].peers = syncPathPeers(n)
            /\ paths[n].shards = syncPathShards(n))
    /\ [][\A n \in Hosts : pc[n] \in ToStatePcs =>
            /\ paths'[n].peers = paths[n].peers
            /\ paths'[n].shards = paths[n].shards]_vars

\* a node has returned from toState(done) having waited for both sets, and
\* the wait of flush, which got the map of the field itself, has emptied
\* syncPathDataShards of the config server
C32_Witness ==
    \E n \in Hosts :
        /\ ret[n][StatusDone] # ""
        /\ IsPrimary(n)
        /\ paths[n].peers = syncPathPeers(n) /\ paths[n].peers # {}
        /\ paths[n].shards = syncPathShards(n) /\ paths[n].shards # {}
        /\ \E c \in Hosts : IsConfigSrv(c) /\ paths[c].dataShards = {}
                              /\ syncPathDataShards(c) # {}

\* ------------------------------------------------------------ C33
\* no call of the log buffer is under way
LogIdle == \A c \in Callers : lpc[c] = "idle"
\* the objects <path>.<n>.log for n below k, one after the other
RECURSIVE Flushed(_)
Flushed(k) ==
    IF k = 0 THEN <<>>
    ELSE Flushed(k - 1) \o (IF (k - 1) \in DOMAIN objects THEN objects[k - 1] ELSE <<>>)
\* the flushed objects in increasing n, then the buffer, are the bytes accepted
NothingLost == Flushed(MaxCnt) \o buf = accepted
\* the numbers in use are 0 .. cnt-1, each for one object
OneObjectEach == DOMAIN objects = 0..(cnt - 1)

\* C33: between calls of Write and Flush, whatever the callers and their
\* order, the flushed objects in increasing n followed by the buffer are
\* exactly the bytes Write accepted, in order; each n names one object,
\* which is written once; the buffer never holds more than the limit.
C33_LogComplete ==
    /\ [](LogIdle => NothingLost /\ OneObjectEach)
    /\ [](Len(buf) <= limit)
    /\ [][\A k \in DOMAIN objects :
             k \in DOMAIN objects' /\ objects'[k] = objects[k]]_vars

\* as long as no write of a log object has failed, nothing is lost
NoLossWithoutFailure ==
    /\ [](LogIdle /\ saveFails = 0 => NothingLost /\ OneObjectEach)
    /\ [](Len(buf) <= limit)
    /\ [][\A k \in DOMAIN objects :
             k \in DOMAIN objects' /\ objects'[k] = objects[k]]_vars

\* ------------------------------------------------------------ C34
\* no replica set has both rs.done and rs.partlyDone
OneTerminalPerRS ==
    \A n \in Hosts :
        ~(Exists(syncPathRS(n), StatusDone) /\ Exists(syncPathRS(n), StatusPartlyDone))
\* the cluster does not have both cluster.done and cluster.partlyDone
OneTerminalPerCluster ==
    ~(Exists(syncPathCluster, StatusDone) /\ Exists(syncPathCluster, StatusPartlyDone))
\* the nodes that returned from toState(done) without error got one status
SameReturned ==
    \A n \in Hosts : \A m \in Hosts :
        (ret[n][StatusDone] \in {StatusDone, StatusPartlyDone}
         /\ ret[m][StatusDone] \in {StatusDone, StatusPartlyDone})
        => ret[n][StatusDone] = ret[m][StatusDone]

\* C34: agreement on the terminal status: no replica set has both rs.done
\* and rs.partlyDone, the cluster has not both cluster.done and
\* cluster.partlyDone, and all nodes that return from toState(done) without
\* error return the same status.
C34_TerminalAgreement == OneTerminalPerRS /\ OneTerminalPerCluster /\ SameReturned

\* ------------------------------------------------------------ C35
\* C35: the summary <restore-name>.json is written at most once: a summary
\* that a node has written is never written again by another node, however
\* the existence checks and the writes of dumpMeta interleave.
C35_SummaryWrittenOnce ==
    [][meta.status # "" => meta' = meta]_vars

\* ------------------------------------------------------------ C36
\* at most one node reaches the backup run
OneRun == Len(ran) <= 1
\* a node in the run was nominated and holds the lock of the replica set
RunHoldsLock == \A n \in Candidates : apc[n] = "run" => bcpLock = n
\* no batch of nominees was set after an ack had been recorded
NoBatchAfterAck == \A i \in 1..Len(published) : published[i].ack = ""

C37_PlannerNoFault == ppc # "panicked"

\* ------------------------------------------------------------ C38
\* C38: when init fails before the storage handle is set, Snapshot returns
\* the error to its caller without faulting: no node ends in a fault of the
\* deferred failure handling.
C38_InitErrorReturned == \A n \in Hosts : pc[n] # "panicked"

\* ------------------------------------------------------------ C39
\* Snapshot: meta.BcpChain, the names of the frames of r.files from the last
\* to the first
BcpChain == [i \in 1..Len(rfiles) |-> rfiles[Len(rfiles) + 1 - i].BcpName]
\* the names of the backups of the chain, the base first, the target last
ChainNames == [i \in 1..Len(chain) |-> chain[i].Name]

\* C39: the BcpChain of the restore metadata lists exactly the names of the
\* backups of the chain, base first and target last; the name of the frame
\* of the directories, __dir__, is not in it.
C39_BcpChain == Planned => BcpChain = ChainNames

\* a plan without a frame of directories gives the names of the chain
BcpChainWithoutDirs ==
    (Planned /\ \A i \in 1..Len(rfiles) : rfiles[i].BcpName # bcpDir) => BcpChain = ChainNames
====
